---- MODULE Spec2Model ----
(***************************************************************************)
(* Verification model of the Smart AI DJ backend:                          *)
(*   - app/analysis/camelot.py      Camelot wheel compatibility functions  *)
(*   - app/strategist/fallback.py   rule_based_mix (deterministic plan)    *)
(*   - app/strategist/ai_strategist.py  ai_mix_decision (strategist +      *)
(*                                  fallback)                              *)
(*   - app/renderer/engine.py       render_mix / _simplified_render        *)
(*                                                                         *)
(* Three specifications share the module's variables; each one holds the   *)
(* variables of the other two parts at their idle values.                  *)
(*   SpecCamelot : the pure wheel functions applied to every pair of codes *)
(*   SpecMix     : rule_based_mix and ai_mix_decision on bounded analyses  *)
(*   SpecRender  : one render_mix invocation, stage by stage               *)
(*                                                                         *)
(* Number conventions.  Python strings that the code indexes are sequences *)
(* of one-character strings.  Floats are fixed-point integers: times in    *)
(* hundredths of a millisecond, BPM in tenths, stretch factors in 1/10000, *)
(* scores in hundredths.                                                   *)
(***************************************************************************)
EXTENDS Integers, Sequences, FiniteSets, TLC

VARIABLES
    \* ---- camelot.py: arguments and the results of the calls made so far
    camA, camB, called, dist, distBA, rel, score, shift,
    \* ---- camelot.py: two key names and what key_to_camelot returned for them
    keyA, keyB, codeOfA, codeOfB,
    \* ---- strategist: the analysis (Contract A), the caller's arguments, which
    \* entry point was called, what the strategist did, and the call's result
    contractA, mixArgs, mixVia, gemini, mixResult,
    \* ---- renderer: the plan being rendered, the position inside render_mix,
    \* the temporary directory, the executor requests issued so far, the
    \* complete writes of each output file, the value or exception on its way
    \* to the caller, the stage at which each path failed, and what
    \* get_sfx_audio did when it was asked for the effect
    rPlan, rPc, workDir, ops, outMp3, outWav, rResult, rFailed, rSimpleFailed,
    sfxAudio,
    \* ---- concurrent sessions: each session's position in create_mix, the
    \* prompt of its effect, its temporary directory, the module-level
    \* _sfx_cache (prompt -> session whose directory holds the clip, 0 for no
    \* entry), the (writer, reader) pairs of cache entries one session wrote
    \* and another read, and the pairs of sessions that were running at the
    \* same time
    sPc, sPrompt, sDir, sfx_cache, cacheReads, overlapped,
    \* ---- _time_stretch: the factor it was called with, the position inside
    \* it, and the locals atempo_val (a fraction num/den of 1/10000) and
    \* atempo_chain (the atempo values, in 1/10000) of its ffmpeg path
    tsFactor, tsPc, atempo_val, atempo_chain

keyVars == <<keyA, keyB, codeOfA, codeOfB>>

camVars == <<camA, camB, called, dist, distBA, rel, score, shift, keyVars>>

mixVars == <<contractA, mixArgs, mixVia, gemini, mixResult>>

sessVars == <<sPc, sPrompt, sDir, sfx_cache, cacheReads, overlapped>>

stretchVars == <<tsFactor, tsPc, atempo_val, atempo_chain>>

renderVars ==
    <<rPlan, rPc, workDir, ops, outMp3, outWav, rResult, rFailed, rSimpleFailed, sfxAudio,
      sessVars, stretchVars>>

vars == <<camVars, mixVars, renderVars>>

-----------------------------------------------------------------------------
(* Small helpers *)

Abs(x) == IF x < 0 THEN -x ELSE x

Min(x, y) == IF x <= y THEN x ELSE y

-----------------------------------------------------------------------------
(* app/analysis/camelot.py *)

\* The sentinel key_to_camelot returns for an unrecognized key: "?"
UnknownCode == <<"?">>

Digits == <<"0", "1", "2", "3", "4", "5", "6", "7", "8", "9">>

DigitVal(c) == (CHOOSE i \in 1..10 : Digits[i] = c) - 1

IsDigit(c) == \E i \in 1..10 : Digits[i] = c

\* cam[:-1]
AllButLast(s) == IF Len(s) = 0 THEN <<>> ELSE SubSeq(s, 1, Len(s) - 1)

\* int(text) succeeds: a non-empty run of decimal digits
IntParses(s) == Len(s) > 0 /\ \A i \in 1..Len(s) : IsDigit(s[i])

RECURSIVE IntOf(_)
\* int(text) for a text that parses
IntOf(s) == IF Len(s) = 0 THEN 0
            ELSE 10 * IntOf(AllButLast(s)) + DigitVal(s[Len(s)])

\* The wheel has 12 positions on each ring; the literal 12 of camelot_distance
WheelSize == 12

\* A variant that forgets the ring-crossing step
camelot_distance_NoRingStep(cam_a, cam_b) ==
    IF cam_a = UnknownCode \/ cam_b = UnknownCode THEN -1
    ELSE IF ~IntParses(AllButLast(cam_a)) \/ ~IntParses(AllButLast(cam_b)) THEN -1
    ELSE LET num_a == IntOf(AllButLast(cam_a))
             num_b == IntOf(AllButLast(cam_b))
             diff  == Abs(num_a - num_b)
         IN  Min(diff, WheelSize - diff)

\* A variant that drops abs() from the number difference
camelot_distance_NoAbs(cam_a, cam_b) ==
    IF cam_a = UnknownCode \/ cam_b = UnknownCode THEN -1
    ELSE IF ~IntParses(AllButLast(cam_a)) \/ ~IntParses(AllButLast(cam_b)) THEN -1
    ELSE LET num_a    == IntOf(AllButLast(cam_a))
             letter_a == cam_a[Len(cam_a)]
             num_b    == IntOf(AllButLast(cam_b))
             letter_b == cam_b[Len(cam_b)]
             diff     == num_a - num_b
         IN  IF letter_a = letter_b
             THEN Min(diff, WheelSize - diff)
             ELSE IF num_a = num_b THEN 0
                  ELSE Min(diff, WheelSize - diff) + 1

camelot_distance(cam_a, cam_b) ==
    IF cam_a = UnknownCode \/ cam_b = UnknownCode THEN -1
    \* except (ValueError, IndexError): return -1
    ELSE IF ~IntParses(AllButLast(cam_a)) \/ ~IntParses(AllButLast(cam_b)) THEN -1
    ELSE LET num_a    == IntOf(AllButLast(cam_a))
             letter_a == cam_a[Len(cam_a)]
             num_b    == IntOf(AllButLast(cam_b))
             letter_b == cam_b[Len(cam_b)]
             diff     == Abs(num_a - num_b)
         IN  IF letter_a = letter_b
             THEN Min(diff, WheelSize - diff)
             ELSE IF num_a = num_b THEN 0
                  ELSE Min(diff, WheelSize - diff) + 1

\* A variant without the "relative" step: every distance above 1 is incompatible
camelot_relation_NoRelative(cam_a, cam_b) ==
    LET d == camelot_distance(cam_a, cam_b)
    IN  IF d < 0 THEN "unknown"
        ELSE IF d = 0 THEN "same"
        ELSE IF d = 1 THEN "adjacent"
        ELSE "incompatible"

camelot_relation(cam_a, cam_b) ==
    LET d == camelot_distance(cam_a, cam_b)
    IN  IF d < 0 THEN "unknown"
        ELSE IF d = 0 THEN "same"
        ELSE IF d = 1 THEN "adjacent"
        ELSE IF d = 2 THEN "relative"
        ELSE "incompatible"

\* scores = {0: 1.0, 1: 0.85, 2: 0.6, 3: 0.4, 4: 0.2, 5: 0.1, 6: 0.05}, in hundredths
ScoreTable == [d \in 0..6 |->
                 CASE d = 0 -> 100 [] d = 1 -> 85 [] d = 2 -> 60 [] d = 3 -> 40
                   [] d = 4 -> 20 [] d = 5 -> 10 [] d = 6 -> 5]

\* A variant that gives an unknown distance the table's worst value
harmonic_score_UnknownWorst(cam_a, cam_b) ==
    LET d == camelot_distance(cam_a, cam_b)
    IN  IF d \in DOMAIN ScoreTable THEN ScoreTable[d] ELSE 5

harmonic_score(cam_a, cam_b) ==
    LET d == camelot_distance(cam_a, cam_b)
    IN  IF d < 0 THEN 50
        ELSE IF d \in DOMAIN ScoreTable THEN ScoreTable[d] ELSE 5

\* Text of a wheel code: str(number) + ring letter
NumText(n) == IF n < 10 THEN <<Digits[n + 1]>>
              ELSE <<Digits[(n \div 10) + 1], Digits[(n % 10) + 1]>>

CodeText(n, ring) == NumText(n) \o <<ring>>

Rings == {"A", "B"}

\* KEY_TO_CAMELOT: key name and wheel code, in the order of the source
KEY_TO_CAMELOT ==
    <<
       <<"C major", CodeText(8, "B")>>, <<"Db major", CodeText(3, "B")>>, <<"D major", CodeText(10, "B")>>,
       <<"Eb major", CodeText(5, "B")>>, <<"E major", CodeText(12, "B")>>, <<"F major", CodeText(7, "B")>>,
       <<"F# major", CodeText(2, "B")>>, <<"Gb major", CodeText(2, "B")>>, <<"G major", CodeText(9, "B")>>,
       <<"Ab major", CodeText(4, "B")>>, <<"A major", CodeText(11, "B")>>, <<"Bb major", CodeText(6, "B")>>,
       <<"B major", CodeText(1, "B")>>, <<"C minor", CodeText(5, "A")>>, <<"C# minor", CodeText(12, "A")>>,
       <<"Db minor", CodeText(12, "A")>>, <<"D minor", CodeText(7, "A")>>, <<"Eb minor", CodeText(2, "A")>>,
       <<"E minor", CodeText(9, "A")>>, <<"F minor", CodeText(4, "A")>>, <<"F# minor", CodeText(11, "A")>>,
       <<"Gb minor", CodeText(11, "A")>>, <<"G minor", CodeText(6, "A")>>, <<"G# minor", CodeText(1, "A")>>,
       <<"Ab minor", CodeText(1, "A")>>, <<"A minor", CodeText(8, "A")>>, <<"Bb minor", CodeText(3, "A")>>,
       <<"B minor", CodeText(10, "A")>>, <<"C", CodeText(8, "B")>>, <<"Cm", CodeText(5, "A")>>,
       <<"C#", CodeText(3, "B")>>, <<"C#m", CodeText(12, "A")>>, <<"Db", CodeText(3, "B")>>,
       <<"Dbm", CodeText(12, "A")>>, <<"D", CodeText(10, "B")>>, <<"Dm", CodeText(7, "A")>>,
       <<"D#", CodeText(5, "B")>>, <<"D#m", CodeText(2, "A")>>, <<"Eb", CodeText(5, "B")>>,
       <<"Ebm", CodeText(2, "A")>>, <<"E", CodeText(12, "B")>>, <<"Em", CodeText(9, "A")>>,
       <<"F", CodeText(7, "B")>>, <<"Fm", CodeText(4, "A")>>, <<"F#", CodeText(2, "B")>>,
       <<"F#m", CodeText(11, "A")>>, <<"Gb", CodeText(2, "B")>>, <<"Gbm", CodeText(11, "A")>>,
       <<"G", CodeText(9, "B")>>, <<"Gm", CodeText(6, "A")>>, <<"G#", CodeText(4, "B")>>,
       <<"G#m", CodeText(1, "A")>>, <<"Ab", CodeText(4, "B")>>, <<"Abm", CodeText(1, "A")>>,
       <<"A", CodeText(11, "B")>>, <<"Am", CodeText(8, "A")>>, <<"A#", CodeText(6, "B")>>,
       <<"A#m", CodeText(3, "A")>>, <<"Bb", CodeText(6, "B")>>, <<"Bbm", CodeText(3, "A")>>,
       <<"B", CodeText(1, "B")>>, <<"Bm", CodeText(10, "A")>>
    >>

\* The keys of KEY_TO_CAMELOT
KeyTableNames == {KEY_TO_CAMELOT[i][1] : i \in DOMAIN KEY_TO_CAMELOT}

\* key_to_camelot: KEY_TO_CAMELOT.get(key, "?"), as the value the call leaves
key_to_camelot(key) ==
    IF key \in KeyTableNames
    THEN [exc |-> "", value |-> <<KEY_TO_CAMELOT[CHOOSE i \in DOMAIN KEY_TO_CAMELOT : KEY_TO_CAMELOT[i][1] = key][2]>>]
    ELSE [exc |-> "", value |-> <<UnknownCode>>]

\* _CAMELOT_TO_PITCH, indexed by wheel number, one row per ring
PitchRowA == <<8, 3, 10, 5, 0, 7, 2, 9, 4, 11, 6, 1>>

PitchRowB == <<11, 6, 1, 8, 3, 10, 5, 0, 7, 2, 9, 4>>

\* The keys of _CAMELOT_TO_PITCH
PitchKeys == {CodeText(n, r) : n \in 1..12, r \in Rings}

\* _CAMELOT_TO_PITCH[cam] for a key of the table
CamelotToPitch(cam) ==
    LET n == IntOf(AllButLast(cam))
    IN  IF cam[Len(cam)] = "A" THEN PitchRowA[n] ELSE PitchRowB[n]

\* A variant that never folds the upper half of the circle downward
pitch_shift_to_match_NoFold(cam_source, cam_target) ==
    IF camelot_distance(cam_source, cam_target) <= 1 THEN 0
    ELSE IF cam_source \notin PitchKeys \/ cam_target \notin PitchKeys THEN 0
    ELSE (CamelotToPitch(cam_target) - CamelotToPitch(cam_source)) % 12

pitch_shift_to_match(cam_source, cam_target) ==
    IF camelot_distance(cam_source, cam_target) <= 1 THEN 0
    ELSE IF cam_source \notin PitchKeys \/ cam_target \notin PitchKeys THEN 0
    ELSE LET diff == (CamelotToPitch(cam_target) - CamelotToPitch(cam_source)) % 12
         IN  IF diff > 6 THEN diff - 12 ELSE diff

-----------------------------------------------------------------------------
(* Fixed-point arithmetic standing for Python floats *)

\* An Optional[...] value: <<>> is None, <<v>> is the value v
None == <<>>

Some(v) == <<v>>

IsNone(o) == Len(o) = 0

\* a / b rounded to the nearest integer, halves to the even neighbour (b # 0)
DivRound(a, b) ==
    LET n == Abs(a)
        d == Abs(b)
        q == n \div d
        r == n % d
        m == IF 2 * r > d THEN q + 1
             ELSE IF 2 * r < d THEN q
             ELSE IF q % 2 = 0 THEN q ELSE q + 1
    IN  IF (a < 0) = (b < 0) THEN m ELSE -m

\* round(x, 1) of a time held in hundredths of a millisecond
Round1(x) == DivRound(x, 10) * 10

\* A time given in milliseconds, in hundredths of a millisecond
Ms(x) == x * 100

-----------------------------------------------------------------------------
(* app/analysis/engine.py: compute_compatibility *)

\* The 0.5 key-confidence threshold, in hundredths
KeyConfidenceThreshold == 50

\* The 2.0 BPM gap above which tempo adjustment is needed, in tenths of a BPM
TempoGapThreshold == 20

\* A variant that asks for tempo adjustment at a gap of exactly 2.0 as well
compute_compatibility_GapInclusive(song_a, song_b) ==
    LET bpm_diff  == Abs(song_a.bpm - song_b.bpm)
        lo        == Min(song_a.bpm, song_b.bpm)
        hi        == IF song_a.bpm >= song_b.bpm THEN song_a.bpm ELSE song_b.bpm
        bpm_ratio == IF lo > 0 THEN DivRound(hi * 1000, lo) ELSE 1000
        cam_dist  == camelot_distance(song_a.camelot, song_b.camelot)
        key_compat ==
            IF song_a.key_confidence < KeyConfidenceThreshold
               \/ song_b.key_confidence < KeyConfidenceThreshold
            THEN "unknown"
            ELSE IF cam_dist <= 1 THEN "True" ELSE "False"
    IN  [ bpm_diff               |-> bpm_diff,
          bpm_ratio              |-> bpm_ratio,
          key_compatible         |-> key_compat,
          camelot_distance       |-> cam_dist,
          camelot_relation       |-> camelot_relation(song_a.camelot, song_b.camelot),
          needs_tempo_adjustment |-> bpm_diff >= TempoGapThreshold,
          recommended_target_bpm |-> DivRound(song_a.bpm + song_b.bpm, 2),
          harmonic_mixing_score  |-> harmonic_score(song_a.camelot, song_b.camelot) ]

\* A variant for which a key confidence of exactly 0.5 is still too low
compute_compatibility_ConfInclusive(song_a, song_b) ==
    LET bpm_diff  == Abs(song_a.bpm - song_b.bpm)
        lo        == Min(song_a.bpm, song_b.bpm)
        hi        == IF song_a.bpm >= song_b.bpm THEN song_a.bpm ELSE song_b.bpm
        bpm_ratio == IF lo > 0 THEN DivRound(hi * 1000, lo) ELSE 1000
        cam_dist  == camelot_distance(song_a.camelot, song_b.camelot)
        key_compat ==
            IF song_a.key_confidence <= KeyConfidenceThreshold
               \/ song_b.key_confidence <= KeyConfidenceThreshold
            THEN "unknown"
            ELSE IF cam_dist <= 1 THEN "True" ELSE "False"
    IN  [ bpm_diff               |-> bpm_diff,
          bpm_ratio              |-> bpm_ratio,
          key_compatible         |-> key_compat,
          camelot_distance       |-> cam_dist,
          camelot_relation       |-> camelot_relation(song_a.camelot, song_b.camelot),
          needs_tempo_adjustment |-> bpm_diff > TempoGapThreshold,
          recommended_target_bpm |-> DivRound(song_a.bpm + song_b.bpm, 2),
          harmonic_mixing_score  |-> harmonic_score(song_a.camelot, song_b.camelot) ]

compute_compatibility(song_a, song_b) ==
    LET bpm_diff  == Abs(song_a.bpm - song_b.bpm)
        lo        == Min(song_a.bpm, song_b.bpm)
        hi        == IF song_a.bpm >= song_b.bpm THEN song_a.bpm ELSE song_b.bpm
        bpm_ratio == IF lo > 0 THEN DivRound(hi * 1000, lo) ELSE 1000
        cam_dist  == camelot_distance(song_a.camelot, song_b.camelot)
        key_compat ==
            IF song_a.key_confidence < KeyConfidenceThreshold
               \/ song_b.key_confidence < KeyConfidenceThreshold
            THEN "unknown"
            ELSE IF cam_dist <= 1 THEN "True" ELSE "False"
    IN  [ bpm_diff               |-> bpm_diff,
          bpm_ratio              |-> bpm_ratio,
          key_compatible         |-> key_compat,
          camelot_distance       |-> cam_dist,
          camelot_relation       |-> camelot_relation(song_a.camelot, song_b.camelot),
          needs_tempo_adjustment |-> bpm_diff > TempoGapThreshold,
          recommended_target_bpm |-> DivRound(song_a.bpm + song_b.bpm, 2),
          harmonic_mixing_score  |-> harmonic_score(song_a.camelot, song_b.camelot) ]

-----------------------------------------------------------------------------
(* app/strategist/fallback.py *)

\* A variant that keeps the last minimum
nearest_downbeat_LastMin(downbeats_ms, target_ms) ==
    IF Len(downbeats_ms) = 0 THEN target_ms
    ELSE LET key(i) == Abs(downbeats_ms[i] - target_ms)
             best   == CHOOSE i \in 1..Len(downbeats_ms) :
                          /\ \A j \in 1..Len(downbeats_ms) : key(i) <= key(j)
                          /\ \A j \in (i + 1)..Len(downbeats_ms) : key(j) > key(i)
         IN  downbeats_ms[best]

\* _nearest_downbeat: min(downbeats_ms, key=...) keeps the first minimum
nearest_downbeat(downbeats_ms, target_ms) ==
    IF Len(downbeats_ms) = 0 THEN target_ms
    ELSE LET key(i) == Abs(downbeats_ms[i] - target_ms)
             best   == CHOOSE i \in 1..Len(downbeats_ms) :
                          /\ \A j \in 1..Len(downbeats_ms) : key(i) <= key(j)
                          /\ \A j \in 1..(i - 1) : key(j) > key(i)
         IN  downbeats_ms[best]

\* _phrase_at
phrase_at(phrases, ms) ==
    LET hits == {i \in 1..Len(phrases) :
                    phrases[i].start_ms <= ms /\ ms <= phrases[i].end_ms}
    IN  IF hits = {} THEN "unknown"
        ELSE phrases[CHOOSE i \in hits : \A j \in hits : i <= j].type

InPhraseTypes == {"intro", "verse", "breakdown"}

\* A variant that takes the first phrase whatever its label
first_suitable_phrase_start_AnyLabel(phrases) ==
    IF Len(phrases) = 0 THEN 0 ELSE phrases[1].start_ms

\* in_point = 0.0; for phrase in sb.phrases: if phrase.type in (...): ... break
first_suitable_phrase_start(phrases) ==
    LET hits == {i \in 1..Len(phrases) : phrases[i].type \in InPhraseTypes}
    IN  IF hits = {} THEN 0
        ELSE phrases[CHOOSE i \in hits : \A j \in hits : i <= j].start_ms

\* The literals of the transition length: 4 beats per bar, 60000 ms per minute,
\* 8 bars
BeatsPerBar == 4

MsPerMinute == 60000

BarsPerTransition == 8

\* ms_per_bar = (4 * 60000) / target_bpm; transition_duration = ms_per_bar * 8,
\* rounded once to the model's resolution (target_bpm in tenths of a BPM)
full_transition_duration(target_bpm) ==
    DivRound(BarsPerTransition * Ms(BeatsPerBar * MsPerMinute) * 10, target_bpm)

\* A variant with the quotient upside down: song_bpm / target_bpm
stretch_ratio_Inverted(target_bpm, song_bpm) == DivRound(song_bpm * 10000, target_bpm)

\* target_bpm / song_bpm, in 1/10000
stretch_ratio(target_bpm, song_bpm) == DivRound(target_bpm * 10000, song_bpm)

\* The value a call leaves: a result, or the exception it raised
Returned(v) == [exc |-> "", value |-> Some(v)]

Raised(e) == [exc |-> e, value |-> None]

\* No result yet
Pending == [exc |-> "", value |-> None]

\* A variant whose cut stops at -12 dB
EntryCut_Shallow(start_ms, end_ms) ==
    [action |-> "cut", start_ms |-> start_ms, end_ms |-> end_ms,
     from_db |-> 0, to_db |-> -12, curve |-> "linear"]

EntryCut(start_ms, end_ms) ==
    [action |-> "cut", start_ms |-> start_ms, end_ms |-> end_ms,
     from_db |-> 0, to_db |-> -24, curve |-> "linear"]

EntryBoost(start_ms, end_ms) ==
    [action |-> "boost", start_ms |-> start_ms, end_ms |-> end_ms,
     from_db |-> -24, to_db |-> 0, curve |-> "linear"]

\* A variant that leaves the effect switched on
SfxSwitchedOn ==
    [enabled |-> TRUE, type |-> "none", source |-> "library",
     has_prompt |-> FALSE, position_ms |-> 0]

\* SFXConfig(enabled=False): the model's defaults
SfxDisabled ==
    [enabled |-> FALSE, type |-> "none", source |-> "library",
     has_prompt |-> FALSE, position_ms |-> 0]

\* The plan rule_based_mix builds once no division has raised
\* A variant that shifts whenever the caller asked for key matching
pitch_shift_b_AnyVerdict(contract_a, mix_in_key) ==
    IF mix_in_key
    THEN pitch_shift_to_match(contract_a.song_b.camelot, contract_a.song_a.camelot)
    ELSE 0

\* pitch_shift_b = 0; if mix_in_key and compat.key_compatible is not True and
\* compat.key_compatible != "unknown": pitch_shift_b = pitch_shift_to_match(...)
pitch_shift_b(contract_a, mix_in_key) ==
    IF mix_in_key /\ contract_a.compatibility.key_compatible # "True"
                  /\ contract_a.compatibility.key_compatible # "unknown"
    THEN pitch_shift_to_match(contract_a.song_b.camelot, contract_a.song_a.camelot)
    ELSE 0

rule_based_plan(contract_a, transition_start_ms, mix_in_key, song_b_in_point_ms) ==
    LET sa     == contract_a.song_a
        sb     == contract_a.song_b
        compat == contract_a.compatibility
        out_point ==
            IF ~IsNone(transition_start_ms)
            THEN nearest_downbeat(sa.downbeats_ms, transition_start_ms[1])
            ELSE nearest_downbeat(sa.downbeats_ms, DivRound(sa.duration_ms * 75, 100))
        in_point ==
            IF ~IsNone(song_b_in_point_ms)
            THEN nearest_downbeat(sb.downbeats_ms, song_b_in_point_ms[1])
            ELSE first_suitable_phrase_start(sb.phrases)
        target_bpm == compat.recommended_target_bpm
        full_duration == full_transition_duration(target_bpm)
        transition_duration ==
            IF out_point + full_duration > sa.duration_ms
            THEN sa.duration_ms - out_point
            ELSE full_duration
        stretch_a == IF compat.needs_tempo_adjustment
                     THEN stretch_ratio(target_bpm, sa.bpm) ELSE 10000
        stretch_b == IF compat.needs_tempo_adjustment
                     THEN stretch_ratio(target_bpm, sb.bpm) ELSE 10000
        shift_b == pitch_shift_b(contract_a, mix_in_key)
        half == DivRound(transition_duration, 2)
    IN  [ strategy   |-> "bass_swap",
          confidence |-> 50,
          reasoning  |-> [ notice       |-> "Rule-based fallback (AI unavailable). ",
                           bpm_diff     |-> compat.bpm_diff,
                           target_bpm   |-> target_bpm,
                           relation     |-> compat.camelot_relation,
                           key_note     |-> shift_b # 0 ],
          song_a |-> [ out_point_ms          |-> Some(Round1(out_point)),
                       in_point_ms           |-> None,
                       out_phrase            |-> Some(phrase_at(sa.phrases, out_point)),
                       in_phrase             |-> None,
                       fade_start_ms         |-> Some(Round1(out_point)),
                       fade_end_ms           |-> None,
                       tempo_stretch_factor  |-> stretch_a,
                       pitch_shift_semitones |-> 0 ],
          song_b |-> [ out_point_ms          |-> None,
                       in_point_ms           |-> Some(Round1(in_point)),
                       out_phrase            |-> None,
                       in_phrase             |-> Some(phrase_at(sb.phrases, in_point)),
                       fade_start_ms         |-> None,
                       fade_end_ms           |-> Some(Round1(in_point + transition_duration)),
                       tempo_stretch_factor  |-> stretch_b,
                       pitch_shift_semitones |-> shift_b ],
          transition |-> [ total_duration_ms |-> Round1(transition_duration),
                           crossfade_curve   |-> "linear",
                           eq_automation |->
                             [ song_a_bass  |-> Some(EntryCut(out_point, out_point + half)),
                               song_b_bass  |-> Some(EntryBoost(half, transition_duration)),
                               song_a_highs |-> None,
                               song_b_highs |-> None,
                               song_a_mids  |-> None,
                               song_b_mids  |-> None ] ],
          sfx        |-> SfxDisabled,
          suggestion |-> None ]

rule_based_mix(contract_a, transition_start_ms, mix_in_key, song_b_in_point_ms) ==
    LET compat == contract_a.compatibility
    IN  \* ms_per_bar = (4 * 60000) / target_bpm
        IF compat.recommended_target_bpm = 0 THEN Raised("ZeroDivisionError")
        \* stretch_a = target_bpm / sa.bpm; stretch_b = target_bpm / sb.bpm
        ELSE IF compat.needs_tempo_adjustment
                /\ (contract_a.song_a.bpm = 0 \/ contract_a.song_b.bpm = 0)
        THEN Raised("ZeroDivisionError")
        ELSE Returned(rule_based_plan(contract_a, transition_start_ms,
                                      mix_in_key, song_b_in_point_ms))

-----------------------------------------------------------------------------
(* app/strategist/ai_strategist.py *)

\* Keys a MixDecision must carry to validate (fields without a default)
RequiredDecisionFields ==
    {"strategy", "confidence", "reasoning", "song_a", "song_b", "transition"}

\* ContractB.model_validate(parsed): the decision, or a ValidationError
model_validate(parsed) ==
    IF RequiredDecisionFields \subseteq parsed.fields
       /\ parsed.decision.confidence \in 0..100
    THEN Returned(parsed.decision)
    ELSE Raised("ValidationError")

\* _call_gemini: the HTTP exchange may time out or fail, the body may not be
\* JSON, and the parsed body may not validate
call_gemini(outcome) ==
    IF outcome.kind = "timeout" THEN Raised("TimeoutException")
    ELSE IF outcome.kind = "http_error" THEN Raised("HTTPStatusError")
    ELSE IF outcome.kind = "bad_json" THEN Raised("JSONDecodeError")
    ELSE model_validate(outcome.parsed)

\* ai_mix_decision; user_strategy only changes the prompt text and is left out
ai_mix_decision(contract_a, transition_start_ms, mix_in_key, song_b_in_point_ms, api_key, outcome) ==
    IF ~api_key
    THEN rule_based_mix(contract_a, transition_start_ms, mix_in_key, song_b_in_point_ms)
    ELSE LET result == call_gemini(outcome)
         IN  IF result.exc = ""
             THEN LET md == result.value[1]
                  IN  IF mix_in_key /\ md.song_b.pitch_shift_semitones = 0
                      THEN Returned([md EXCEPT !.song_b.pitch_shift_semitones =
                               pitch_shift_to_match(contract_a.song_b.camelot,
                                                    contract_a.song_a.camelot)])
                      ELSE result
             \* except Exception: return rule_based_mix(...)
             ELSE rule_based_mix(contract_a, transition_start_ms,
                                 mix_in_key, song_b_in_point_ms)

-----------------------------------------------------------------------------
(* app/renderer/engine.py: render_mix, one blocking executor call per step *)

\* x or 0 for an Optional[float]: None and 0.0 are both falsy
OrZero(o) == IF IsNone(o) THEN 0 ELSE o[1]

\* A variant that starts from the out point whatever the fade boundary
FadeStart_OutPoint(md) == OrZero(md.song_a.out_point_ms)

\* md.song_a.fade_start_ms or md.song_a.out_point_ms or 0
FadeStart(md) ==
    IF OrZero(md.song_a.fade_start_ms) # 0 THEN md.song_a.fade_start_ms[1]
    ELSE OrZero(md.song_a.out_point_ms)

\* x * factor for a factor held in 1/10000, without overflowing 32 bits
TimesFactor(x, factor) ==
    (x \div 10000) * factor + DivRound((x % 10000) * factor, 10000)

\* The length _time_stretch's output has for an input `length` long:
\* rubberband runs with time ratio 1.0 / factor, atempo with tempo `factor`
StretchedLength(length, factor) ==
    (length \div factor) * 10000 + DivRound((length % factor) * 10000, factor)

\* orig_trans_dur_a = trans_dur * sa_sf if sa_sf != 1.0 else trans_dur
OrigTransDurA(md) ==
    IF md.song_a.tempo_stretch_factor # 10000
    THEN TimesFactor(md.transition.total_duration_ms, md.song_a.tempo_stretch_factor)
    ELSE md.transition.total_duration_ms

\* seg_a_end_ms = fade_start + orig_trans_dur_a
SegAEnd(md) == FadeStart(md) + OrigTransDurA(md)

\* crossfade_start_in_a=fade_start * sa_sf if sa_sf != 1.0 else fade_start
CrossfadeStartInA(md) ==
    IF md.song_a.tempo_stretch_factor # 10000
    THEN TimesFactor(FadeStart(md), md.song_a.tempo_stretch_factor)
    ELSE FadeStart(md)

\* One request to the media executor (ffmpeg, ffprobe, rubberband)
Op(name, song, a, b) == [a |-> a, b |-> b, song |-> song, op |-> name]

\* _eq_filter_for_band returns a filter only for a window of positive length
HasFilter(entry, offset_ms) ==
    /\ ~IsNone(entry)
    /\ LET start == IF entry[1].start_ms - offset_ms < 0 THEN 0
                    ELSE entry[1].start_ms - offset_ms
       IN  (entry[1].end_ms - offset_ms) - start > 0

\* _apply_eq_automation: the bands of one song that produce a filter
EqBands(eq_auto, song_id) ==
    LET entries == IF song_id = "a"
                   THEN [bass  |-> eq_auto.song_a_bass,
                         highs |-> eq_auto.song_a_highs,
                         mids  |-> eq_auto.song_a_mids]
                   ELSE [bass  |-> eq_auto.song_b_bass,
                         highs |-> eq_auto.song_b_highs,
                         mids  |-> eq_auto.song_b_mids]
    IN  {band \in DOMAIN entries : HasFilter(entries[band], 0)}

\* OUTPUT_DIR / f"{session_id}_mix.mp3"
OutputMp3 == "session_mix.mp3"

\* The stages of _simplified_render, which work inside work_dir
SimpleStages ==
    {"simple_ensure_a", "simple_ensure_b", "simple_extract_b",
     "simple_crossfade", "simple_encode"}

\* A variant without the except clause: the failure goes straight to the caller
OnPrimaryFailure_Propagate(stage) ==
    /\ rPc' = "finally"
    /\ rFailed' = stage
    /\ rResult' = Raised("CalledProcessError")

\* except Exception as e: ... return await _simplified_render(...)
OnPrimaryFailure(stage) ==
    /\ rPc' = "simple_ensure_a"
    /\ rFailed' = stage
    /\ rResult' = rResult

\* A stage of the primary path that issues the requests `issued`; the last of
\* them succeeds or fails
PrimaryStep(stage, issued, next) ==
    /\ rPc = stage
    /\ ops' = ops \o issued
    /\ \E ok \in BOOLEAN :
         IF ok THEN rPc' = next /\ UNCHANGED <<rFailed, rResult>>
         ELSE OnPrimaryFailure(stage)
    /\ UNCHANGED <<rPlan, sfxAudio, workDir, outMp3, outWav, rSimpleFailed, camVars, mixVars, sessVars, stretchVars>>

\* A stage whose condition is false: nothing is issued
SkipStep(stage, next) ==
    /\ rPc = stage
    /\ rPc' = next
    /\ UNCHANGED <<rPlan, sfxAudio, workDir, ops, outMp3, outWav, rResult, rFailed, rSimpleFailed, camVars, mixVars, sessVars, stretchVars>>

\* rubberband first; on CalledProcessError / FileNotFoundError the ffmpeg
\* filter; a rubberband timeout or a failing ffmpeg fails the stage
TwoToolStep(stage, tool, fallbackTool, song, arg, next) ==
    /\ rPc = stage
    /\ \E outcome \in {"first_ok", "second_ok", "timeout", "second_failed"} :
         /\ ops' = ops \o <<Op(tool, song, arg, 0)>>
                       \o (IF outcome \in {"second_ok", "second_failed"}
                           THEN <<Op(fallbackTool, song, arg, 0)>> ELSE <<>>)
         /\ IF outcome \in {"first_ok", "second_ok"}
            THEN rPc' = next /\ UNCHANGED <<rFailed, rResult>>
            ELSE OnPrimaryFailure(stage)
    /\ UNCHANGED <<rPlan, sfxAudio, workDir, outMp3, outWav, rSimpleFailed, camVars, mixVars, sessVars, stretchVars>>

\* work_dir = Path(tempfile.mkdtemp(prefix="dj_render_"))
Mkdtemp ==
    /\ rPc = "mkdtemp"
    /\ workDir' = "exists"
    /\ rPc' = "ensure_wav_a"
    /\ UNCHANGED <<rPlan, sfxAudio, ops, outMp3, outWav, rResult, rFailed, rSimpleFailed, camVars, mixVars, sessVars, stretchVars>>

EnsureWavA ==
    PrimaryStep("ensure_wav_a", <<Op("ensure_wav", "a", 0, 0)>>, "ensure_wav_b")

EnsureWavB ==
    PrimaryStep("ensure_wav_b", <<Op("ensure_wav", "b", 0, 0)>>, "extract_a")

ExtractSegmentA ==
    PrimaryStep("extract_a",
                <<Op("extract_segment", "a", 0, SegAEnd(rPlan))>>, "extract_b")

\* end_ms=None: to the end of song B
ExtractSegmentB ==
    PrimaryStep("extract_b",
                <<Op("extract_segment", "b", OrZero(rPlan.song_b.in_point_ms), -1)>>,
                "eq_a")

ApplyEqAutomationA ==
    IF EqBands(rPlan.transition.eq_automation, "a") # {}
    THEN PrimaryStep("eq_a", <<Op("eq", "a", 0, 0)>>, "eq_b")
    ELSE SkipStep("eq_a", "eq_b")

ApplyEqAutomationB ==
    IF EqBands(rPlan.transition.eq_automation, "b") # {}
    THEN PrimaryStep("eq_b", <<Op("eq", "b", 0, 0)>>, "stretch_a")
    ELSE SkipStep("eq_b", "stretch_a")

\* A variant that stretches song A whatever its factor
TimeStretchA_Unconditional ==
    TwoToolStep("stretch_a", "rubberband_stretch", "atempo", "a",
                rPlan.song_a.tempo_stretch_factor, "stretch_b")

TimeStretchA ==
    IF rPlan.song_a.tempo_stretch_factor # 10000
    THEN TwoToolStep("stretch_a", "rubberband_stretch", "atempo", "a",
                     rPlan.song_a.tempo_stretch_factor, "stretch_b")
    ELSE SkipStep("stretch_a", "stretch_b")

TimeStretchB ==
    IF rPlan.song_b.tempo_stretch_factor # 10000
    THEN TwoToolStep("stretch_b", "rubberband_stretch", "atempo", "b",
                     rPlan.song_b.tempo_stretch_factor, "pitch_a")
    ELSE SkipStep("stretch_b", "pitch_a")

PitchShiftA ==
    IF rPlan.song_a.pitch_shift_semitones # 0
    THEN TwoToolStep("pitch_a", "rubberband_pitch", "asetrate", "a",
                     rPlan.song_a.pitch_shift_semitones, "pitch_b")
    ELSE SkipStep("pitch_a", "pitch_b")

PitchShiftB ==
    IF rPlan.song_b.pitch_shift_semitones # 0
    THEN TwoToolStep("pitch_b", "rubberband_pitch", "asetrate", "b",
                     rPlan.song_b.pitch_shift_semitones, "crossfade")
    ELSE SkipStep("pitch_b", "crossfade")

\* _crossfade: ffprobe of seg_a, then ffmpeg acrossfade with the named curve
Crossfade ==
    PrimaryStep("crossfade",
                <<Op("crossfade", rPlan.transition.crossfade_curve,
                     CrossfadeStartInA(rPlan), rPlan.transition.total_duration_ms)>>,
                "sfx")

\* What _generate_elevenlabs_sfx can do: deliver a clip, raise (HTTP error,
\* connection error) or time out
SfxGenerations == {"ok", "raises", "timeout"}

\* Whether get_sfx_audio asks ElevenLabs at all
wants_generation(sfx_config, api_key) ==
    sfx_config.source = "elevenlabs" /\ api_key /\ sfx_config.has_prompt

\* A variant without the try/except around the generation: its failure leaves
\* get_sfx_audio as an exception
get_sfx_audio_Unguarded(sfx_config, api_key, generation, library_clip) ==
    IF ~sfx_config.enabled \/ sfx_config.type = "none" THEN "none"
    ELSE IF wants_generation(sfx_config, api_key) /\ generation = "ok" THEN "generated"
    ELSE IF wants_generation(sfx_config, api_key) THEN "raised"
    ELSE IF library_clip THEN "library" ELSE "none"

\* get_sfx_audio: the generated clip; after a failed or unwanted generation the
\* library clip; None ("none") when there is nothing to resolve or no clip
get_sfx_audio(sfx_config, api_key, generation, library_clip) ==
    IF ~sfx_config.enabled \/ sfx_config.type = "none" THEN "none"
    ELSE IF wants_generation(sfx_config, api_key) /\ generation = "ok" THEN "generated"
    ELSE IF library_clip THEN "library" ELSE "none"

\* get_sfx_audio has not been called
SfxNotAsked == [generation |-> "not_tried", library_clip |-> FALSE, path |-> "unresolved"]

\* if md.sfx.enabled: mixed = await _overlay_sfx(...); the environment decides
\* whether an ElevenLabs key is configured, what the generation does and
\* whether the library holds a clip
OverlaySfx ==
    /\ rPc = "sfx"
    /\ IF rPlan.sfx.enabled
       THEN \E api_key \in BOOLEAN, generation \in SfxGenerations, library_clip \in BOOLEAN :
              LET sfx_path == get_sfx_audio(rPlan.sfx, api_key, generation, library_clip)
              IN  /\ sfxAudio' = [generation |-> IF wants_generation(rPlan.sfx, api_key)
                                                 THEN generation ELSE "not_tried",
                                  library_clip |-> library_clip,
                                  path |-> sfx_path]
                  /\ IF sfx_path = "raised"
                     THEN OnPrimaryFailure("sfx") /\ UNCHANGED ops
                     ELSE IF sfx_path = "none"
                     THEN rPc' = "export_mp3" /\ UNCHANGED <<ops, rFailed, rResult>>
                     ELSE /\ ops' = Append(ops, Op("overlay", "mix", rPlan.sfx.position_ms, 0))
                          /\ \E ok \in BOOLEAN :
                               IF ok THEN rPc' = "export_mp3" /\ UNCHANGED <<rFailed, rResult>>
                               ELSE OnPrimaryFailure("sfx")
       ELSE rPc' = "export_mp3" /\ UNCHANGED <<sfxAudio, ops, rFailed, rResult>>
    /\ UNCHANGED <<rPlan, workDir, outMp3, outWav, rSimpleFailed, camVars, mixVars, sessVars, stretchVars>>

\* _normalize_and_export, first ffmpeg run: the MP3
NormalizeExportMp3 ==
    /\ rPc = "export_mp3"
    /\ ops' = Append(ops, Op("normalize_encode", "mp3", 0, 0))
    /\ \E ok \in BOOLEAN :
         IF ok THEN /\ rPc' = "export_wav"
                    /\ outMp3' = Append(outMp3, "primary")
                    /\ UNCHANGED <<rFailed, rResult>>
         ELSE OnPrimaryFailure("export_mp3") /\ UNCHANGED outMp3
    /\ UNCHANGED <<rPlan, sfxAudio, workDir, outWav, rSimpleFailed, camVars, mixVars, sessVars, stretchVars>>

\* _normalize_and_export, second ffmpeg run: the WAV; then return output_mp3
NormalizeExportWav ==
    /\ rPc = "export_wav"
    /\ ops' = Append(ops, Op("normalize_encode", "wav", 0, 0))
    /\ \E ok \in BOOLEAN :
         IF ok THEN /\ rPc' = "finally"
                    /\ outWav' = Append(outWav, "primary")
                    /\ rResult' = Returned(OutputMp3)
                    /\ UNCHANGED rFailed
         ELSE OnPrimaryFailure("export_wav") /\ UNCHANGED outWav
    /\ UNCHANGED <<rPlan, sfxAudio, workDir, outMp3, rSimpleFailed, camVars, mixVars, sessVars, stretchVars>>

\* A stage of _simplified_render: a failure propagates out of render_mix
SimpleStep(stage, issued, next) ==
    /\ rPc = stage
    /\ ops' = ops \o issued
    /\ \E ok \in BOOLEAN :
         IF ok THEN rPc' = next /\ UNCHANGED <<rResult, rSimpleFailed>>
         ELSE /\ rPc' = "finally"
              /\ rSimpleFailed' = stage
              /\ rResult' = Raised("CalledProcessError")
    /\ UNCHANGED <<rPlan, sfxAudio, workDir, outMp3, outWav, rFailed, camVars, mixVars, sessVars, stretchVars>>

SimpleEnsureWavA ==
    SimpleStep("simple_ensure_a", <<Op("ensure_wav", "a", 0, 0)>>, "simple_ensure_b")

SimpleEnsureWavB ==
    SimpleStep("simple_ensure_b", <<Op("ensure_wav", "b", 0, 0)>>, "simple_extract_b")

\* if in_point > 0: wav_b = _extract_segment(wav_b, in_point, None, ...)
SimpleExtractB ==
    IF OrZero(rPlan.song_b.in_point_ms) > 0
    THEN SimpleStep("simple_extract_b",
                    <<Op("extract_segment", "b", OrZero(rPlan.song_b.in_point_ms), -1)>>,
                    "simple_crossfade")
    ELSE SkipStep("simple_extract_b", "simple_crossfade")

\* A variant that fades with the curve the plan names
SimpleCrossfade_PlanCurve ==
    SimpleStep("simple_crossfade",
               <<Op("crossfade", rPlan.transition.crossfade_curve, -1,
                    rPlan.transition.total_duration_ms)>>,
               "simple_encode")

\* acrossfade=d=...:c1=tri:c2=tri
SimpleCrossfade ==
    SimpleStep("simple_crossfade",
               <<Op("crossfade", "linear", -1, rPlan.transition.total_duration_ms)>>,
               "simple_encode")

\* The last ffmpeg run of _simplified_render writes output_mp3 only
SimpleEncode ==
    /\ rPc = "simple_encode"
    /\ ops' = Append(ops, Op("normalize_encode", "mp3", 0, 0))
    /\ \E ok \in BOOLEAN :
         IF ok THEN /\ rPc' = "finally"
                    /\ outMp3' = Append(outMp3, "fallback")
                    /\ rResult' = Returned(OutputMp3)
                    /\ UNCHANGED rSimpleFailed
         ELSE /\ rPc' = "finally"
              /\ rSimpleFailed' = "simple_encode"
              /\ rResult' = Raised("CalledProcessError")
              /\ UNCHANGED outMp3
    /\ UNCHANGED <<rPlan, sfxAudio, workDir, outWav, rFailed, camVars, mixVars, sessVars, stretchVars>>

\* A variant that cleans up only when no exception is in flight
Finally_OnlyOnSuccess ==
    /\ rPc = "finally"
    /\ workDir' = IF rResult.exc = "" THEN "removed" ELSE workDir
    /\ rPc' = "done"
    /\ UNCHANGED <<rPlan, sfxAudio, ops, outMp3, outWav, rResult, rFailed, rSimpleFailed, camVars, mixVars, sessVars, stretchVars>>

\* finally: shutil.rmtree(work_dir, ignore_errors=True); then the value or the
\* exception reaches the caller
Finally ==
    /\ rPc = "finally"
    /\ workDir' = "removed"
    /\ rPc' = "done"
    /\ UNCHANGED <<rPlan, sfxAudio, ops, outMp3, outWav, rResult, rFailed, rSimpleFailed, camVars, mixVars, sessVars, stretchVars>>

-----------------------------------------------------------------------------
(* Idle values of the wheel-function variables *)

CamIdle ==
    /\ called = {}
    /\ dist = 0 /\ distBA = 0 /\ rel = "" /\ score = 0 /\ shift = 0

\* No call of key_to_camelot has returned yet
KeyPending == [exc |-> "", value |-> <<>>]

KeyIdle ==
    /\ codeOfA = KeyPending /\ codeOfB = KeyPending

KeyParked ==
    /\ keyA = "" /\ keyB = ""
    /\ KeyIdle

CamParked ==
    /\ camA = UnknownCode /\ camB = UnknownCode
    /\ CamIdle
    /\ KeyParked

-----------------------------------------------------------------------------
(* Inputs and idle values of the decision part *)

\* Number of downbeats the analysis found in song A (a bound of the model)
MaxDownbeats == 3

DurationsA == {Ms(4000), Ms(12000) + 10, Ms(30000)}

\* Song A's downbeats: one every 2000 ms from 0, those inside the song
DownbeatsA(n) == [i \in 1..n |-> Ms(2000) * (i - 1)]

\* The downbeats the analysis can report for a song of this duration
DownbeatsWithin(n, duration) ==
    LET Inside(d) == d <= duration
    IN  SelectSeq(DownbeatsA(n), Inside)

PhrasesA(duration) ==
    << [start_ms |-> 0, end_ms |-> Ms(3000), type |-> "intro"],
       [start_ms |-> Ms(3000), end_ms |-> duration, type |-> "chorus"] >>

\* (bpm of A, bpm of B) in tenths: gap exactly 2.0, gaps above 2.0 (one with a
\* mean of 127.05, which round(x, 1) takes to 127.0), and the zero tempo the
\* analysis reports for audio without detectable beats
BpmPairs == {<<1280, 1260>>, <<1281, 1260>>, <<1280, 1200>>, <<1200, 1500>>, <<0, 0>>, <<0, 1200>>}

KeyPairs ==
    { [a |-> CodeText(8, "A"), ca |-> 80, b |-> CodeText(9, "A"), cb |-> 80],
      [a |-> CodeText(8, "B"), ca |-> 80, b |-> CodeText(2, "B"), cb |-> 80],
      [a |-> CodeText(8, "A"), ca |-> 80, b |-> CodeText(3, "A"), cb |-> 80],
      [a |-> CodeText(1, "A"), ca |-> 80, b |-> CodeText(7, "B"), cb |-> 80],
      [a |-> CodeText(8, "A"), ca |-> 40, b |-> CodeText(2, "A"), cb |-> 80],
      [a |-> CodeText(8, "A"), ca |-> 50, b |-> CodeText(9, "A"), cb |-> 80],
      [a |-> CodeText(8, "A"), ca |-> 80, b |-> CodeText(2, "A"), cb |-> 30],
      [a |-> UnknownCode,      ca |-> 80, b |-> CodeText(9, "A"), cb |-> 80] }

\* Song B's structure: phrases and downbeats
StructuresB ==
    { [ phrases |-> << [start_ms |-> 0, end_ms |-> Ms(5000), type |-> "chorus"],
                       [start_ms |-> Ms(5000), end_ms |-> Ms(15000), type |-> "verse"] >>,
        downbeats_ms |-> << 0, Ms(1900) + 80, Ms(3800) + 60 >> ],
      [ phrases |-> << [start_ms |-> 0, end_ms |-> Ms(5000), type |-> "chorus"],
                       [start_ms |-> Ms(5000), end_ms |-> Ms(15000), type |-> "drop"] >>,
        downbeats_ms |-> << 0, Ms(1900) + 80, Ms(3800) + 60 >> ],
      [ phrases |-> << >>, downbeats_ms |-> << >> ] }

\* The caller's desired out point: none, midway between two downbeats, late in
\* the short song, and past the end of song A
TransitionStarts == {None, Some(Ms(3000)), Some(Ms(11000) + 10), Some(Ms(40000))}

InPoints == {None, Some(Ms(2000))}

SongA(duration, n, bpm, kp) ==
    [ duration_ms |-> duration, bpm |-> bpm, camelot |-> kp.a,
      key_confidence |-> kp.ca, downbeats_ms |-> DownbeatsWithin(n, duration),
      phrases |-> PhrasesA(duration) ]

SongB(st, bpm, kp) ==
    [ duration_ms |-> Ms(15000), bpm |-> bpm, camelot |-> kp.b,
      key_confidence |-> kp.cb, downbeats_ms |-> st.downbeats_ms,
      phrases |-> st.phrases ]

\* analyze_pair: Contract A with its compatibility computed from the two songs
analyze_pair(song_a, song_b) ==
    [ song_a |-> song_a, song_b |-> song_b,
      compatibility |-> compute_compatibility(song_a, song_b) ]

\* A conforming strategist decision
StrategistDecision(pitch_b) ==
    [ strategy   |-> "phrase_blend",
      confidence |-> 80,
      reasoning  |-> [ notice |-> "", bpm_diff |-> 0, target_bpm |-> 0,
                       relation |-> "", key_note |-> FALSE ],
      song_a |-> [ out_point_ms |-> Some(Ms(4000)), in_point_ms |-> None,
                   out_phrase |-> Some("chorus"), in_phrase |-> None,
                   fade_start_ms |-> Some(Ms(4000)), fade_end_ms |-> None,
                   tempo_stretch_factor |-> 10000, pitch_shift_semitones |-> 0 ],
      song_b |-> [ out_point_ms |-> None, in_point_ms |-> Some(0),
                   out_phrase |-> None, in_phrase |-> Some("intro"),
                   fade_start_ms |-> None, fade_end_ms |-> Some(Ms(8000)),
                   tempo_stretch_factor |-> 10000, pitch_shift_semitones |-> pitch_b ],
      transition |-> [ total_duration_ms |-> Ms(8000),
                       crossfade_curve   |-> "equal_power",
                       eq_automation |->
                         [ song_a_bass  |-> Some(EntryCut(Ms(4000), Ms(8000))),
                           song_b_bass  |-> Some(EntryBoost(Ms(4000), Ms(8000))),
                           song_a_highs |-> None, song_b_highs |-> None,
                           song_a_mids  |-> None, song_b_mids  |-> None ] ],
      sfx        |-> SfxDisabled,
      suggestion |-> None ]

AllDecisionFields == RequiredDecisionFields \cup {"sfx"}

\* The body SYSTEM_PROMPT asks for when the songs do not mix: strategy
\* "incompatible", confidence 0.0, reasoning and suggestion, no song_a,
\* song_b or transition
IncompatibleResponse ==
    [kind |-> "response",
     parsed |-> [fields |-> {"strategy", "confidence", "reasoning", "suggestion"},
                 decision |-> [StrategistDecision(0) EXCEPT
                                  !.strategy = "incompatible",
                                  !.confidence = 0,
                                  !.suggestion = Some("change a song")]]]

\* What the strategist call can do
GeminiOutcomes ==
    { [kind |-> k, parsed |-> [fields |-> {}, decision |-> StrategistDecision(0)]]
        : k \in {"timeout", "http_error", "bad_json"} }
    \cup
    { [kind |-> "response",
       parsed |-> [fields |-> AllDecisionFields, decision |-> StrategistDecision(p)]]
        : p \in {0, 2} }
    \cup
    \* a body that lacks the mix geometry
    { IncompatibleResponse }

NotCalled == [kind |-> "not_called",
              parsed |-> [fields |-> {}, decision |-> StrategistDecision(0)]]

MixIdle ==
    /\ mixVia = "none"
    /\ gemini = [api_key |-> FALSE, outcome |-> NotCalled]
    /\ mixResult = Pending

MixParked ==
    /\ contractA = analyze_pair(SongA(Ms(30000), 0, 1200, CHOOSE kp \in KeyPairs : TRUE),
                                SongB(CHOOSE st \in StructuresB : TRUE, 1200,
                                      CHOOSE kp \in KeyPairs : TRUE))
    /\ mixArgs = [transition_start_ms |-> None, mix_in_key |-> FALSE,
                  song_b_in_point_ms |-> None]
    /\ MixIdle

-----------------------------------------------------------------------------
(* Inputs and idle values of the render part *)

SfxEnabled ==
    [enabled |-> TRUE, type |-> "riser_sweep", source |-> "library",
     has_prompt |-> FALSE, position_ms |-> Ms(4000)]

\* An effect to be generated from a prompt
SfxElevenLabs ==
    [enabled |-> TRUE, type |-> "impact", source |-> "elevenlabs",
     has_prompt |-> TRUE, position_ms |-> Ms(4000)]

\* SFX settings of the plans rendered
SfxConfigs == {SfxDisabled, SfxEnabled, SfxElevenLabs}

\* The fade boundary of song A in a strategist plan: at the out point, before
\* it, and 0.0
FadeStarts == {Ms(4000), Ms(3000), 0}

\* Plans handed to render_mix: stretch factors 1.0 / other, pitch shifts 0 /
\* other, SFX off / from the library / generated, in-point 0 / later, fade
\* boundary at / before the out point
RenderPlans ==
    { [StrategistDecision(pb) EXCEPT
          !.song_a.fade_start_ms = Some(fs),
          !.song_a.tempo_stretch_factor = fa,
          !.song_b.tempo_stretch_factor = fb,
          !.song_a.pitch_shift_semitones = pa,
          !.song_b.in_point_ms = Some(ip),
          !.sfx = sfx]
        : pb \in {0, 2}, pa \in {0, -1}, fa \in {10000, 9922}, fb \in {10000, 10079},
          ip \in {0, Ms(5000)}, sfx \in SfxConfigs, fs \in FadeStarts }

RenderIdle ==
    /\ rPc = "mkdtemp"
    /\ workDir = "none"
    /\ ops = <<>>
    /\ outMp3 = <<>> /\ outWav = <<>>
    /\ rResult = Pending
    /\ rFailed = "none" /\ rSimpleFailed = "none"
    /\ sfxAudio = SfxNotAsked

\* Sessions running at the same time, and the prompts of their effects
Sessions == {1, 2, 3}

Prompts == {"riser", "impact"}

\* No session has started, the cache is empty
SessIdle ==
    /\ sPc = [s \in Sessions |-> "start"]
    /\ sDir = [s \in Sessions |-> "none"]
    /\ sfx_cache = [p \in Prompts |-> 0]
    /\ cacheReads = {}
    /\ overlapped = {}

SessParked ==
    /\ sPrompt = [s \in Sessions |-> "riser"]
    /\ SessIdle

\* _time_stretch has not been called
StretchIdle ==
    /\ tsPc = "call"
    /\ atempo_val = [num |-> 0, den |-> 1]
    /\ atempo_chain = <<>>

StretchParked ==
    /\ tsFactor = 10000
    /\ StretchIdle

RenderParked ==
    /\ rPlan = StrategistDecision(0)
    /\ RenderIdle
    /\ SessParked
    /\ StretchParked

-----------------------------------------------------------------------------
(* SpecSessions: create_mix running for several sessions on one event loop. *)
(* A session gives way to the others only at an await that suspends: the    *)
(* progress notifications and the strategist's HTTP call before render_mix,  *)
(* and the ElevenLabs HTTP call inside it. Everything between two such       *)
(* points, subprocess runs included, is one step.                            *)

InitSessions ==
    /\ sPrompt \in [Sessions -> Prompts]
    /\ SessIdle
    /\ rPlan = StrategistDecision(0)
    /\ RenderIdle
    /\ StretchParked
    /\ CamParked
    /\ MixParked

\* The entry of _sfx_cache under this prompt was written by another session
ReadsForeignEntry(s) ==
    sfx_cache[sPrompt[s]] # 0 /\ sfx_cache[sPrompt[s]] # s

\* The sessions between the start of create_mix and the end of render_mix
InFlight == {t \in Sessions : sPc[t] \in {"deciding", "posting"}}

\* create_mix up to its awaits before render_mix
SessStart(s) ==
    /\ sPc[s] = "start"
    /\ sPc' = [sPc EXCEPT ![s] = "deciding"]
    /\ overlapped' = overlapped \cup {<<t, s>> : t \in InFlight} \cup {<<s, t>> : t \in InFlight}
    /\ UNCHANGED <<sPrompt, sDir, sfx_cache, cacheReads>>
    /\ UNCHANGED <<rPlan, rPc, workDir, ops, outMp3, outWav, rResult, rFailed, rSimpleFailed, sfxAudio, camVars, mixVars, stretchVars>>

\* From the strategist's answer through mkdtemp and the primary stages to
\* _generate_elevenlabs_sfx: "prompt_hash in _sfx_cache and
\* _sfx_cache[prompt_hash].exists()"; a hit returns the cached path and the
\* render runs to its end, a miss leaves the session awaiting the HTTP call
SessRenderToSfx(s) ==
    /\ sPc[s] = "deciding"
    /\ cacheReads' = IF ReadsForeignEntry(s)
                     THEN cacheReads \cup {<<sfx_cache[sPrompt[s]], s>>}
                     ELSE cacheReads
    /\ IF sfx_cache[sPrompt[s]] # 0 /\ sDir[sfx_cache[sPrompt[s]]] = "exists"
       THEN /\ sPc' = [sPc EXCEPT ![s] = "done"]
            /\ sDir' = [sDir EXCEPT ![s] = "removed"]
       ELSE /\ sPc' = [sPc EXCEPT ![s] = "posting"]
            /\ sDir' = [sDir EXCEPT ![s] = "exists"]
    /\ UNCHANGED <<sPrompt, sfx_cache, overlapped>>
    /\ UNCHANGED <<rPlan, rPc, workDir, ops, outMp3, outWav, rResult, rFailed, rSimpleFailed, sfxAudio, camVars, mixVars, stretchVars>>

\* The HTTP call returns: on success the clip is written into the session's
\* directory and "_sfx_cache[prompt_hash] = output_path"; then overlay, export
\* and the finally clause's rmtree follow without another suspension
SessRenderFromSfx(s) ==
    /\ sPc[s] = "posting"
    /\ \E generation \in SfxGenerations :
         sfx_cache' = IF generation = "ok"
                      THEN [sfx_cache EXCEPT ![sPrompt[s]] = s]
                      ELSE sfx_cache
    /\ sPc' = [sPc EXCEPT ![s] = "done"]
    /\ sDir' = [sDir EXCEPT ![s] = "removed"]
    /\ UNCHANGED <<sPrompt, cacheReads, overlapped>>
    /\ UNCHANGED <<rPlan, rPc, workDir, ops, outMp3, outWav, rResult, rFailed, rSimpleFailed, sfxAudio, camVars, mixVars, stretchVars>>

NextSessions ==
    \E s \in Sessions :
        \/ SessStart(s)
        \/ SessRenderToSfx(s)
        \/ SessRenderFromSfx(s)

SpecSessions == InitSessions /\ [][NextSessions]_vars

-----------------------------------------------------------------------------
(* SpecKeys: key_to_camelot applied to two key names *)

\* Spellings of the 24 keys: name, pitch class of the tonic (semitones above
\* C), mode; each note in its sharp and flat spelling, each key in its short
\* form and with its full name
KeySpellings ==
    {
      <<"C", 0, "major">>, <<"C major", 0, "major">>, <<"Cm", 0, "minor">>,
      <<"C minor", 0, "minor">>, <<"C#", 1, "major">>, <<"C# major", 1, "major">>,
      <<"C#m", 1, "minor">>, <<"C# minor", 1, "minor">>, <<"Db", 1, "major">>,
      <<"Db major", 1, "major">>, <<"Dbm", 1, "minor">>, <<"Db minor", 1, "minor">>,
      <<"D", 2, "major">>, <<"D major", 2, "major">>, <<"Dm", 2, "minor">>,
      <<"D minor", 2, "minor">>, <<"D#", 3, "major">>, <<"D# major", 3, "major">>,
      <<"D#m", 3, "minor">>, <<"D# minor", 3, "minor">>, <<"Eb", 3, "major">>,
      <<"Eb major", 3, "major">>, <<"Ebm", 3, "minor">>, <<"Eb minor", 3, "minor">>,
      <<"E", 4, "major">>, <<"E major", 4, "major">>, <<"Em", 4, "minor">>,
      <<"E minor", 4, "minor">>, <<"F", 5, "major">>, <<"F major", 5, "major">>,
      <<"Fm", 5, "minor">>, <<"F minor", 5, "minor">>, <<"F#", 6, "major">>,
      <<"F# major", 6, "major">>, <<"F#m", 6, "minor">>, <<"F# minor", 6, "minor">>,
      <<"Gb", 6, "major">>, <<"Gb major", 6, "major">>, <<"Gbm", 6, "minor">>,
      <<"Gb minor", 6, "minor">>, <<"G", 7, "major">>, <<"G major", 7, "major">>,
      <<"Gm", 7, "minor">>, <<"G minor", 7, "minor">>, <<"G#", 8, "major">>,
      <<"G# major", 8, "major">>, <<"G#m", 8, "minor">>, <<"G# minor", 8, "minor">>,
      <<"Ab", 8, "major">>, <<"Ab major", 8, "major">>, <<"Abm", 8, "minor">>,
      <<"Ab minor", 8, "minor">>, <<"A", 9, "major">>, <<"A major", 9, "major">>,
      <<"Am", 9, "minor">>, <<"A minor", 9, "minor">>, <<"A#", 10, "major">>,
      <<"A# major", 10, "major">>, <<"A#m", 10, "minor">>, <<"A# minor", 10, "minor">>,
      <<"Bb", 10, "major">>, <<"Bb major", 10, "major">>, <<"Bbm", 10, "minor">>,
      <<"Bb minor", 10, "minor">>, <<"B", 11, "major">>, <<"B major", 11, "major">>,
      <<"Bm", 11, "minor">>, <<"B minor", 11, "minor">>
    }

\* Names handed to key_to_camelot: every spelling, and texts that name no key
KeyInputs == {k[1] : k \in KeySpellings} \cup {"X#dim7", "", "am", "H minor"}

InitKeys ==
    /\ keyA \in KeyInputs
    /\ keyB \in KeyInputs
    /\ KeyIdle
    /\ camA = UnknownCode /\ camB = UnknownCode
    /\ CamIdle
    /\ MixParked
    /\ RenderParked

CallKeyToCamelotA ==
    /\ codeOfA = KeyPending
    /\ codeOfA' = key_to_camelot(keyA)
    /\ UNCHANGED <<keyA, keyB, codeOfB, camA, camB, called, dist, distBA, rel, score, shift, mixVars, renderVars>>

CallKeyToCamelotB ==
    /\ codeOfB = KeyPending
    /\ codeOfB' = key_to_camelot(keyB)
    /\ UNCHANGED <<keyA, keyB, codeOfA, camA, camB, called, dist, distBA, rel, score, shift, mixVars, renderVars>>

NextKeys ==
    \/ CallKeyToCamelotA
    \/ CallKeyToCamelotB

SpecKeys == InitKeys /\ [][NextKeys]_vars

-----------------------------------------------------------------------------
(* SpecCamelot: the wheel functions applied to a pair of codes *)

\* Codes handed to the functions: the 24 wheel codes, the unknown sentinel and
\* texts that do not parse
CamInputs == PitchKeys \cup {UnknownCode, <<"A">>, <<>>}


InitCamelot ==
    /\ camA \in CamInputs
    /\ camB \in CamInputs
    /\ CamIdle
    /\ KeyParked
    /\ MixParked
    /\ RenderParked

CallCamelotDistance ==
    /\ "distance" \notin called
    /\ dist' = camelot_distance(camA, camB)
    /\ called' = called \cup {"distance"}
    /\ UNCHANGED <<camA, camB, distBA, rel, score, shift, keyVars, mixVars, renderVars>>

\* The same function with the arguments exchanged
CallCamelotDistanceBA ==
    /\ "distanceBA" \notin called
    /\ distBA' = camelot_distance(camB, camA)
    /\ called' = called \cup {"distanceBA"}
    /\ UNCHANGED <<camA, camB, dist, rel, score, shift, keyVars, mixVars, renderVars>>

CallCamelotRelation ==
    /\ "relation" \notin called
    /\ rel' = camelot_relation(camA, camB)
    /\ called' = called \cup {"relation"}
    /\ UNCHANGED <<camA, camB, dist, distBA, score, shift, keyVars, mixVars, renderVars>>

CallHarmonicScore ==
    /\ "score" \notin called
    /\ score' = harmonic_score(camA, camB)
    /\ called' = called \cup {"score"}
    /\ UNCHANGED <<camA, camB, dist, distBA, rel, shift, keyVars, mixVars, renderVars>>

CallPitchShiftToMatch ==
    /\ "shift" \notin called
    /\ shift' = pitch_shift_to_match(camA, camB)
    /\ called' = called \cup {"shift"}
    /\ UNCHANGED <<camA, camB, dist, distBA, rel, score, keyVars, mixVars, renderVars>>

NextCamelot ==
    \/ CallCamelotDistance
    \/ CallCamelotDistanceBA
    \/ CallCamelotRelation
    \/ CallHarmonicScore
    \/ CallPitchShiftToMatch

SpecCamelot == InitCamelot /\ [][NextCamelot]_vars

-----------------------------------------------------------------------------
(* SpecMix: one decision request on a bounded analysis pair *)

InitMix ==
    /\ \E duration \in DurationsA, n \in 0..MaxDownbeats, bpms \in BpmPairs,
          kp \in KeyPairs, st \in StructuresB :
          contractA = analyze_pair(SongA(duration, n, bpms[1], kp),
                                   SongB(st, bpms[2], kp))
    /\ \E ts \in TransitionStarts, key \in BOOLEAN, ip \in InPoints :
          mixArgs = [transition_start_ms |-> ts, mix_in_key |-> key,
                     song_b_in_point_ms |-> ip]
    /\ MixIdle
    /\ CamParked
    /\ RenderParked

\* A direct call of the rule-based mixer
CallRuleBasedMix ==
    /\ mixVia = "none"
    /\ mixVia' = "rule_based_mix"
    /\ mixResult' = rule_based_mix(contractA, mixArgs.transition_start_ms,
                                   mixArgs.mix_in_key, mixArgs.song_b_in_point_ms)
    /\ UNCHANGED <<contractA, mixArgs, gemini, camVars, renderVars>>

\* create_mix's call; the environment decides whether an API key is configured
\* and what the strategist does
CallAiMixDecision ==
    /\ mixVia = "none"
    /\ mixVia' = "ai_mix_decision"
    /\ \E api_key \in BOOLEAN :
         \E outcome \in (IF api_key THEN GeminiOutcomes ELSE {NotCalled}) :
           /\ gemini' = [api_key |-> api_key, outcome |-> outcome]
           /\ mixResult' = ai_mix_decision(contractA, mixArgs.transition_start_ms,
                                           mixArgs.mix_in_key,
                                           mixArgs.song_b_in_point_ms,
                                           api_key, outcome)
    /\ UNCHANGED <<contractA, mixArgs, camVars, renderVars>>

NextMix ==
    \/ CallRuleBasedMix
    \/ CallAiMixDecision

SpecMix == InitMix /\ [][NextMix]_vars

-----------------------------------------------------------------------------
(* SpecRender: one render_mix invocation *)

InitRender ==
    /\ rPlan \in RenderPlans
    /\ RenderIdle
    /\ SessParked
    /\ StretchParked
    /\ CamParked
    /\ MixParked

NextRender ==
    \/ Mkdtemp
    \/ EnsureWavA
    \/ EnsureWavB
    \/ ExtractSegmentA
    \/ ExtractSegmentB
    \/ ApplyEqAutomationA
    \/ ApplyEqAutomationB
    \/ TimeStretchA
    \/ TimeStretchB
    \/ PitchShiftA
    \/ PitchShiftB
    \/ Crossfade
    \/ OverlaySfx
    \/ NormalizeExportMp3
    \/ NormalizeExportWav
    \/ SimpleEnsureWavA
    \/ SimpleEnsureWavB
    \/ SimpleExtractB
    \/ SimpleCrossfade
    \/ SimpleEncode
    \/ Finally

SpecRender == InitRender /\ [][NextRender]_vars

-----------------------------------------------------------------------------
(* SpecStretch: one _time_stretch call, for the factors a plan can carry      *)
(* (tempo_stretch_factor is an unconstrained float).                          *)

\* The most iterations of one loop that are followed
MaxAtempoSteps == 8

\* Factors in 1/10000: -0.1 to 2.5 in steps of 0.025, and 4.5002, 8.0, 9.0004
TsFactors == { 250 * f : f \in -4..100 } \cup {45002, 80000, 90004}

\* atempo_val > 2.0
AboveTwo(v) == v.num > 20000 * v.den

\* atempo_val < 0.5
BelowHalf(v) == v.num < 5000 * v.den

\* f"{atempo_val:.4f}"
Format4(v) == DivRound(v.num, v.den)

InitStretch ==
    /\ tsFactor \in TsFactors
    /\ StretchIdle
    /\ rPlan = StrategistDecision(0)
    /\ RenderIdle
    /\ SessParked
    /\ CamParked
    /\ MixParked

\* rb_time_ratio = 1.0 / factor, then rubberband: it succeeds, fails with
\* CalledProcessError or FileNotFoundError (caught), or times out (not caught)
RunRubberband ==
    /\ tsPc = "call"
    /\ IF tsFactor = 0
       THEN tsPc' = "ZeroDivisionError" /\ UNCHANGED atempo_val
       ELSE \E outcome \in {"ok", "failed", "timeout"} :
              CASE outcome = "ok"      -> tsPc' = "returned" /\ UNCHANGED atempo_val
                [] outcome = "timeout" -> tsPc' = "TimeoutExpired" /\ UNCHANGED atempo_val
                [] outcome = "failed"  -> /\ tsPc' = "halving"
                                          /\ atempo_val' = [num |-> tsFactor, den |-> 1]
    /\ UNCHANGED <<tsFactor, atempo_chain>>
    /\ UNCHANGED <<rPlan, rPc, workDir, ops, outMp3, outWav, rResult, rFailed, rSimpleFailed, sfxAudio, camVars, mixVars, sessVars>>

\* while atempo_val > 2.0: append "atempo=2.0", halve
HalveStep ==
    /\ tsPc = "halving"
    /\ AboveTwo(atempo_val)
    /\ Len(atempo_chain) < MaxAtempoSteps
    /\ atempo_chain' = Append(atempo_chain, 20000)
    /\ atempo_val' = [atempo_val EXCEPT !.den = 2 * @]
    /\ UNCHANGED <<tsFactor, tsPc>>
    /\ UNCHANGED <<rPlan, rPc, workDir, ops, outMp3, outWav, rResult, rFailed, rSimpleFailed, sfxAudio, camVars, mixVars, sessVars>>

\* The first loop's condition is false
LeaveHalving ==
    /\ tsPc = "halving"
    /\ ~AboveTwo(atempo_val)
    /\ tsPc' = "doubling"
    /\ UNCHANGED <<tsFactor, atempo_val, atempo_chain>>
    /\ UNCHANGED <<rPlan, rPc, workDir, ops, outMp3, outWav, rResult, rFailed, rSimpleFailed, sfxAudio, camVars, mixVars, sessVars>>

\* while atempo_val < 0.5: append "atempo=0.5", double
DoubleStep ==
    /\ tsPc = "doubling"
    /\ BelowHalf(atempo_val)
    /\ Len(atempo_chain) < MaxAtempoSteps
    /\ atempo_chain' = Append(atempo_chain, 5000)
    /\ atempo_val' = [atempo_val EXCEPT !.num = 2 * @]
    /\ UNCHANGED <<tsFactor, tsPc>>
    /\ UNCHANGED <<rPlan, rPc, workDir, ops, outMp3, outWav, rResult, rFailed, rSimpleFailed, sfxAudio, camVars, mixVars, sessVars>>

\* The second loop's condition is false: append the remaining value
AppendLast ==
    /\ tsPc = "doubling"
    /\ ~BelowHalf(atempo_val)
    /\ atempo_chain' = Append(atempo_chain, Format4(atempo_val))
    /\ tsPc' = "ffmpeg"
    /\ UNCHANGED <<tsFactor, atempo_val>>
    /\ UNCHANGED <<rPlan, rPc, workDir, ops, outMp3, outWav, rResult, rFailed, rSimpleFailed, sfxAudio, camVars, mixVars, sessVars>>

\* ffmpeg -af <chain>, check=True
RunFfmpegAtempo ==
    /\ tsPc = "ffmpeg"
    /\ \E ok \in BOOLEAN : tsPc' = IF ok THEN "returned" ELSE "CalledProcessError"
    /\ UNCHANGED <<tsFactor, atempo_val, atempo_chain>>
    /\ UNCHANGED <<rPlan, rPc, workDir, ops, outMp3, outWav, rResult, rFailed, rSimpleFailed, sfxAudio, camVars, mixVars, sessVars>>

NextStretch ==
    \/ RunRubberband
    \/ HalveStep
    \/ LeaveHalving
    \/ DoubleStep
    \/ AppendLast
    \/ RunFfmpegAtempo

SpecStretch == InitStretch /\ [][NextStretch]_vars


-----------------------------------------------------------------------------
(* Properties *)

\* min(|na - nb|, 12 - |na - nb|): the circular distance of two wheel numbers
Circular(na, nb) ==
    IF Abs(na - nb) <= 12 - Abs(na - nb) THEN Abs(na - nb) ELSE 12 - Abs(na - nb)

\* The strategist produced no conforming decision: no API key, a time-out, an
\* HTTP or JSON error, or a body without the required keys
StrategistUnavailable ==
    \/ ~gemini.api_key
    \/ gemini.outcome.kind # "response"
    \/ ~(RequiredDecisionFields \subseteq gemini.outcome.parsed.fields)

\* C1: rule_based_mix always returns a plan and never raises, for every
\* analysis pair Contract A accepts (zero BPM, unknown codes, empty lists).
C1_RuleBasedMixNeverRaises ==
    mixVia = "rule_based_mix" =>
        mixResult.exc = "" /\ ~IsNone(mixResult.value)

\* C2: when a stage of the primary path fails, render_mix runs the simplified
\* render and returns its artifact path; it raises to the caller only when the
\* simplified render failed as well.
C2_FallbackOnPrimaryFailure ==
    rPc = "done" =>
        /\ rFailed = "none" => rResult = Returned(OutputMp3)
        /\ rFailed # "none" =>
              \* the simplified render converted song A a second time
              /\ Len(SelectSeq(ops, LAMBDA o : o = Op("ensure_wav", "a", 0, 0))) = 2
              /\ IF rSimpleFailed = "none"
                 THEN /\ rResult = Returned(OutputMp3)
                      /\ Len(outMp3) > 0 /\ outMp3[Len(outMp3)] = "fallback"
                 ELSE rResult.exc # ""
        /\ rResult.exc # "" => (rFailed # "none" /\ rSimpleFailed # "none")

\* C2 witness: the EQ stage of the primary path failed and the simplified
\* render delivered the artifact.
C2_Witness ==
    /\ rPc = "done"
    /\ rFailed = "eq_a"
    /\ rSimpleFailed = "none"
    /\ rResult = Returned(OutputMp3)

\* C3: for valid wheel codes camelot_distance is the circular number distance
\* on equal rings, 0 on different rings with equal numbers, and the circular
\* distance plus one otherwise; d(1A,12A) = d(12A,1A) = 1 and d(8A,8B) = 0.
C3_DistanceRule ==
    "distance" \in called =>
        /\ \A na \in 1..12, nb \in 1..12 : \A ra \in Rings, rb \in Rings :
              (camA = CodeText(na, ra) /\ camB = CodeText(nb, rb)) =>
                  dist = IF ra = rb THEN Circular(na, nb)
                         ELSE IF na = nb THEN 0
                         ELSE Circular(na, nb) + 1
        /\ (camA = <<"1", "A">> /\ camB = <<"1", "2", "A">>) => dist = 1
        /\ (camA = <<"1", "2", "A">> /\ camB = <<"1", "A">>) => dist = 1
        /\ (camA = <<"8", "A">> /\ camB = <<"8", "B">>) => dist = 0

\* C3 witness: a ring-crossing pair with different numbers has been measured.
C3_Witness ==
    /\ "distance" \in called
    /\ camA = <<"8", "A">> /\ camB = <<"1", "0", "B">>
    /\ dist = 3

\* C4: the temporary working directory is removed on every exit path of
\* render_mix, and never before the simplified render has finished with it.
C4_WorkDirReleased ==
    /\ rPc = "done" => workDir = "removed"
    /\ rPc \in SimpleStages => workDir = "exists"
    /\ workDir = "removed" => rPc = "done"

\* C4 witness: both paths failed, the exception reached the caller, and the
\* directory is gone.
C4_Witness ==
    /\ rPc = "done"
    /\ rResult.exc # ""
    /\ rSimpleFailed # "none"
    /\ workDir = "removed"

\* C5: ai_mix_decision returns the rule-based plan whenever the strategist is
\* not configured, times out, raises or returns a non-conforming response; no
\* such failure reaches the caller as a failure.
C5_StrategistFailureAbsorbed ==
    (mixVia = "ai_mix_decision" /\ StrategistUnavailable) =>
        /\ mixResult.exc = ""
        /\ mixResult = Returned(rule_based_plan(contractA, mixArgs.transition_start_ms,
                                                mixArgs.mix_in_key,
                                                mixArgs.song_b_in_point_ms))

\* C6: in every plan of rule_based_mix the transition lasts 8 bars (32 beats)
\* at the target BPM, truncated to (duration of A - out point) when it would
\* overflow; so out point + duration never exceeds song A's duration, and the
\* out point itself never exceeds it.
C6_TransitionInsideSongA ==
    (mixVia = "rule_based_mix" /\ mixResult.exc = "") =>
        LET md       == mixResult.value[1]
            out      == md.song_a.out_point_ms[1]
            T        == md.transition.total_duration_ms
            duration == contractA.song_a.duration_ms
            bars8    == DivRound(32 * 60000 * 1000,
                                 contractA.compatibility.recommended_target_bpm)
        IN  /\ T = IF out + bars8 > duration THEN duration - out ELSE Round1(bars8)
            /\ out + T <= duration
            /\ out <= duration

\* C7: after every render_mix call that returns an artifact path, both sibling
\* outputs of the session have been written: the MP3 and the WAV.
C7_BothOutputsWritten ==
    (rPc = "done" /\ rResult.exc = "") =>
        Len(outMp3) > 0 /\ Len(outWav) > 0

\* C8: for every pair of valid wheel codes camelot_distance is an integer in
\* 0..6.
C8_DistanceRange ==
    ("distance" \in called /\ camA \in PitchKeys /\ camB \in PitchKeys) =>
        dist \in 0..6

\* C9: for valid wheel codes x, y: distance(x, x) = 0 and
\* distance(x, y) = distance(y, x).
C9_DistanceSymmetric ==
    (camA \in PitchKeys /\ camB \in PitchKeys) =>
        /\ ("distance" \in called /\ camA = camB) => dist = 0
        /\ {"distance", "distanceBA"} \subseteq called => dist = distBA

\* C9 witness: both orders of a pair of different codes have been measured.
C9_Witness ==
    /\ {"distance", "distanceBA"} \subseteq called
    /\ camA = <<"1", "1", "A">> /\ camB = <<"2", "B">>
    /\ dist = 4 /\ distBA = 4

\* C10: for valid wheel codes pitch_shift_to_match is 0 whenever the distance
\* of source and target is at most 1, and an integer in -6..6 otherwise.
C10_PitchShiftRange ==
    (camA \in PitchKeys /\ camB \in PitchKeys /\ {"distance", "shift"} \subseteq called) =>
        /\ dist <= 1 => shift = 0
        /\ shift \in -6..6

\* C10 witness: an incompatible pair got a non-zero shift.
C10_Witness ==
    /\ {"distance", "shift"} \subseteq called
    /\ camA = <<"8", "B">> /\ camB = <<"2", "B">>
    /\ dist = 6 /\ shift = 6

\* C11: for valid codes at distance above 1, pitch_shift_to_match is the shorter
\* circular direction of (pitch(target) - pitch(source)) mod 12, and a tie at
\* exactly 6 semitones is resolved downward (-6).
C11_ShorterDirectionTieDown ==
    (camA \in PitchKeys /\ camB \in PitchKeys /\ {"distance", "shift"} \subseteq called
       /\ dist > 1) =>
        LET up == (CamelotToPitch(camB) - CamelotToPitch(camA)) % 12
        IN  shift = IF up >= 6 THEN up - 12 ELSE up

\* C15: camelot_relation depends on the wheel distance alone: 0 is "same"
\* (8A/8B included), 1 "adjacent", 2 "relative", 3 and more "incompatible",
\* and an unknown distance "unknown".
C15_RelationByDistance ==
    {"distance", "relation"} \subseteq called =>
        /\ rel = CASE dist < 0 -> "unknown"
                  [] dist = 0 -> "same"
                  [] dist = 1 -> "adjacent"
                  [] dist = 2 -> "relative"
                  [] dist >= 3 -> "incompatible"
        /\ (camA = <<"8", "A">> /\ camB = <<"8", "B">>) => rel = "same"

\* C15 witness: a pair two steps apart has been classified as relative.
C15_Witness ==
    /\ {"distance", "relation"} \subseteq called
    /\ camA = <<"8", "A">> /\ camB = <<"1", "0", "A">>
    /\ dist = 2 /\ rel = "relative"

\* C16: for valid wheel codes harmonic_score is the table value of their
\* distance, {0: 1.0, 1: 0.85, 2: 0.6, 3: 0.4, 4: 0.2, 5: 0.1, 6: 0.05}; so it
\* lies in [0, 1] and does not increase with the distance; 8B against 2B has
\* distance 6, relation "incompatible" and score 0.05.
C16_ScoreIsTableValue ==
    (camA \in PitchKeys /\ camB \in PitchKeys /\ {"distance", "score"} \subseteq called) =>
        /\ dist \in 0..6
        /\ score = (0 :> 100 @@ 1 :> 85 @@ 2 :> 60 @@ 3 :> 40 @@ 4 :> 20 @@ 5 :> 10 @@ 6 :> 5)[dist]
        /\ score \in 0..100
        /\ (camA = <<"8", "B">> /\ camB = <<"2", "B">>) =>
              /\ dist = 6 /\ score = 5
              /\ "relation" \in called => rel = "incompatible"

\* C17: an unknown key is never an error: when either code is "?" the distance
\* is -1, the relation "unknown", the score the neutral 0.5 and the pitch
\* shift 0.
C17_UnknownKeysNeutral ==
    (camA = UnknownCode \/ camB = UnknownCode) =>
        /\ "distance" \in called => dist = -1
        /\ "relation" \in called => rel = "unknown"
        /\ "score" \in called => score = 50
        /\ "shift" \in called => shift = 0

\* C17 witness: all four functions have answered for an unknown source key.
C17_Witness ==
    /\ camA = UnknownCode /\ camB = <<"8", "A">>
    /\ {"distance", "relation", "score", "shift"} \subseteq called
    /\ dist = -1 /\ rel = "unknown" /\ score = 50 /\ shift = 0

\* 8 bars of 4 beats at the target BPM (tenths), in hundredths of a millisecond
EightBars(target_bpm) == DivRound(32 * 60000 * 1000, target_bpm)

\* C13: in every plan of rule_based_mix both stretch factors are exactly 1.0
\* when the tempo-adjustment flag is false (BPM gap at most 2.0); when it is
\* true each factor is target BPM / that song's BPM (to the plan's four
\* decimals), and both differ from 1.0 when the two BPMs differ.
C13_StretchFactors ==
    (mixVia = "rule_based_mix" /\ mixResult.exc = "") =>
        LET md     == mixResult.value[1]
            sa     == contractA.song_a
            sb     == contractA.song_b
            compat == contractA.compatibility
            target == compat.recommended_target_bpm
            fa     == md.song_a.tempo_stretch_factor
            fb     == md.song_b.tempo_stretch_factor
        IN  /\ ~compat.needs_tempo_adjustment =>
                  /\ Abs(sa.bpm - sb.bpm) <= 20
                  /\ fa = 10000 /\ fb = 10000
            /\ compat.needs_tempo_adjustment =>
                  /\ 2 * Abs(fa * sa.bpm - target * 10000) <= sa.bpm
                  /\ 2 * Abs(fb * sb.bpm - target * 10000) <= sb.bpm
                  /\ sa.bpm # sb.bpm => (fa # 10000 /\ fb # 10000)

\* C13 witness: 128 against 120 BPM, target 124.0, gives 0.9688 and 1.0333.
C13_Witness ==
    /\ mixVia = "rule_based_mix" /\ mixResult.exc = ""
    /\ contractA.song_a.bpm = 1280 /\ contractA.song_b.bpm = 1200
    /\ contractA.compatibility.needs_tempo_adjustment
    /\ mixResult.value[1].song_a.tempo_stretch_factor = 9688
    /\ mixResult.value[1].song_b.tempo_stretch_factor = 10333

\* C14: every plan of rule_based_mix has exactly two EQ entries: song A bass
\* "cut", 0 dB to -24 dB, linear, over [out, out + T/2] in song A's time, and
\* song B bass "boost", -24 dB to 0 dB, linear, over [T/2, T] from song B's
\* in-point, T being the clamped transition duration (the plan states T and
\* the out point to one decimal); the four mid and high slots are empty.
C14_BassSwapOnly ==
    (mixVia = "rule_based_mix" /\ mixResult.exc = "") =>
        LET md   == mixResult.value[1]
            eq   == md.transition.eq_automation
            a    == eq.song_a_bass[1]
            b    == eq.song_b_bass[1]
            out  == a.start_ms
            full == EightBars(contractA.compatibility.recommended_target_bpm)
            T    == IF out + full > contractA.song_a.duration_ms
                    THEN contractA.song_a.duration_ms - out ELSE full
        IN  /\ ~IsNone(eq.song_a_bass) /\ ~IsNone(eq.song_b_bass)
            /\ IsNone(eq.song_a_highs) /\ IsNone(eq.song_b_highs)
            /\ IsNone(eq.song_a_mids) /\ IsNone(eq.song_b_mids)
            /\ a.action = "cut" /\ a.from_db = 0 /\ a.to_db = -24 /\ a.curve = "linear"
            /\ b.action = "boost" /\ b.from_db = -24 /\ b.to_db = 0 /\ b.curve = "linear"
            /\ md.song_a.out_point_ms = Some(Round1(out))
            /\ md.transition.total_duration_ms = Round1(T)
            /\ 2 * Abs(2 * (a.end_ms - out) - T) <= 2
            /\ 2 * Abs(2 * b.start_ms - T) <= 2
            /\ b.end_ms = T

\* C14 witness: a plan whose transition was clamped to the rest of song A.
C14_Witness ==
    /\ mixVia = "rule_based_mix" /\ mixResult.exc = ""
    /\ contractA.song_a.duration_ms = Ms(12000) + 10
    /\ contractA.compatibility.recommended_target_bpm = 1240
    /\ mixResult.value[1].song_a.out_point_ms = Some(Ms(4000))
    /\ mixResult.value[1].transition.total_duration_ms = Ms(8000) + 10
    /\ mixResult.value[1].transition.eq_automation.song_b_bass[1].end_ms = Ms(8000) + 10

\* C18: compute_compatibility sets the tempo-adjustment flag exactly when
\* |bpmA - bpmB| > 2.0 (a gap of exactly 2.0 gives false) and the recommended
\* target BPM to the mean of the two BPMs (stated to one decimal); 128 BPM / 8A
\* against 126 BPM / 9A gives target 127.0, flag false, relation "adjacent",
\* score 0.85 and a rule-based plan with both stretch factors 1.0.
C18_TempoFlagAndTarget ==
    LET sa     == contractA.song_a
        sb     == contractA.song_b
        compat == contractA.compatibility
    IN
          /\ compat.needs_tempo_adjustment <=> (Abs(sa.bpm - sb.bpm) > 20)
          /\ Abs(2 * compat.recommended_target_bpm - (sa.bpm + sb.bpm)) <= 1
          /\ (sa.bpm = 1280 /\ sb.bpm = 1260 /\ sa.camelot = <<"8", "A">>
                 /\ sb.camelot = <<"9", "A">>) =>
                /\ compat.recommended_target_bpm = 1270
                /\ ~compat.needs_tempo_adjustment
                /\ compat.camelot_relation = "adjacent"
                /\ compat.harmonic_mixing_score = 85
                /\ (mixVia = "rule_based_mix" /\ mixResult.exc = "") =>
                      /\ mixResult.value[1].song_a.tempo_stretch_factor = 10000
                      /\ mixResult.value[1].song_b.tempo_stretch_factor = 10000

\* C18 witness: the rule-based plan for 128 BPM / 8A against 126 BPM / 9A.
C18_Witness ==
    /\ mixVia = "rule_based_mix" /\ mixResult.exc = ""
    /\ contractA.song_a.bpm = 1280 /\ contractA.song_b.bpm = 1260
    /\ contractA.song_a.camelot = <<"8", "A">> /\ contractA.song_b.camelot = <<"9", "A">>
    /\ contractA.compatibility.recommended_target_bpm = 1270
    /\ ~contractA.compatibility.needs_tempo_adjustment
    /\ mixResult.value[1].song_a.tempo_stretch_factor = 10000

\* C19: the key-compatibility verdict of compute_compatibility is "unknown"
\* exactly when at least one key confidence is below 0.5; otherwise it is a
\* boolean.
C19_KeyVerdictUnknown ==
    LET sa      == contractA.song_a
        sb      == contractA.song_b
        verdict == contractA.compatibility.key_compatible
    IN
          /\ verdict = "unknown" <=> (sa.key_confidence < 50 \/ sb.key_confidence < 50)
          /\ verdict # "unknown" => verdict \in {"True", "False"}

\* C19 witness: song B's key confidence of 0.3 made the verdict unknown.
C19_Witness ==
    /\ mixVia # "none"
    /\ contractA.song_a.key_confidence = 80 /\ contractA.song_b.key_confidence = 30
    /\ contractA.compatibility.key_compatible = "unknown"

\* The overlay request _overlay_sfx issues once it has a clip
IsOverlay(o) == o.op = "overlay"

\* C12: when the plan enables SFX and its resolution fails (the generation
\* raises or times out and the library has no clip), render_mix skips the
\* overlay, goes on to normalize / encode on the primary path and returns the
\* primary artifact; such a failure never starts the fallback render and never
\* fails the render.
C12_SfxFailureSkipsOverlay ==
    (rPlan.sfx.enabled /\ sfxAudio.path # "unresolved"
       /\ sfxAudio.generation # "ok" /\ ~sfxAudio.library_clip) =>
        /\ sfxAudio.path = "none"
        /\ Len(SelectSeq(ops, IsOverlay)) = 0
        /\ rFailed # "sfx"
        /\ rFailed = "none" => rPc \in {"export_mp3", "export_wav", "finally", "done"}
        /\ (rPc = "done" /\ rFailed = "none") =>
              /\ rResult = Returned(OutputMp3)
              /\ outMp3 = <<"primary">>

\* C12 witness: the generation timed out, no library clip was found, and the
\* primary path delivered the artifact.
C12_Witness ==
    /\ rPlan.sfx = SfxElevenLabs
    /\ sfxAudio = [generation |-> "timeout", library_clip |-> FALSE, path |-> "none"]
    /\ rPc = "done" /\ rFailed = "none"
    /\ rResult = Returned(OutputMp3)

\* Rationale notices written by the strategists themselves
StrategistNotices == {"", "Rule-based fallback (AI unavailable). "}

\* C20: whenever a failure is absorbed and a degraded result goes back to the
\* caller (rule-based plan for an unavailable strategist, simplified render
\* after a transform failure, effect omitted after an SFX failure), the
\* rationale of the plan returned to the caller records the degradation.
C20_DegradationRecorded ==
    /\ (mixVia = "ai_mix_decision" /\ StrategistUnavailable /\ mixResult.exc = "") =>
          mixResult.value[1].reasoning.notice = "Rule-based fallback (AI unavailable). "
    /\ (rPc = "done" /\ rResult.exc = "" /\ rFailed # "none") =>
          rPlan.reasoning.notice \notin StrategistNotices
    /\ (rPc = "done" /\ rResult.exc = "" /\ rPlan.sfx.enabled /\ sfxAudio.path = "none") =>
          rPlan.reasoning.notice \notin StrategistNotices

\* C21: every plan of rule_based_mix has strategy "bass_swap", confidence
\* exactly 0.5, a rationale that begins with the rule-based-fallback notice and
\* SFX disabled; it is never the "incompatible" variant.
C21_RuleBasedPlanShape ==
    (mixVia = "rule_based_mix" /\ mixResult.exc = "") =>
        LET md == mixResult.value[1]
        IN  /\ md.strategy = "bass_swap"
            /\ md.strategy # "incompatible"
            /\ IsNone(md.suggestion)
            /\ md.confidence = 50
            /\ md.reasoning.notice = "Rule-based fallback (AI unavailable). "
            /\ ~md.sfx.enabled

\* C21 witness: a plan for two songs whose keys are incompatible.
C21_Witness ==
    /\ mixVia = "rule_based_mix" /\ mixResult.exc = ""
    /\ contractA.compatibility.camelot_relation = "incompatible"
    /\ mixResult.value[1].strategy = "bass_swap"
    /\ ~mixResult.value[1].sfx.enabled

\* Two names spell the same key: same tonic pitch class, same mode
SameKey(ka, kb) ==
    \E x \in KeySpellings, y \in KeySpellings :
        x[1] = ka /\ y[1] = kb /\ x[2] = y[2] /\ x[3] = y[3]

\* C22: key_to_camelot is total and never raises: a recognized key name gives
\* one of the 24 wheel codes, any other string the unknown sentinel "?", and
\* the short form, the full name and the enharmonic spellings of one key
\* (Am / A minor, F# major / Gb major) all give the same code.
C22_KeyNamesAgree ==
    /\ codeOfA.exc = "" /\ codeOfB.exc = ""
    /\ codeOfA # KeyPending =>
          IF keyA \in KeyTableNames THEN codeOfA.value[1] \in PitchKeys
          ELSE codeOfA.value[1] = UnknownCode
    /\ (codeOfA # KeyPending /\ codeOfB # KeyPending /\ SameKey(keyA, keyB)) =>
          codeOfA.value = codeOfB.value
    /\ (codeOfA # KeyPending /\ keyA \in {"Am", "A minor"}) => codeOfA.value[1] = <<"8", "A">>
    /\ (codeOfA # KeyPending /\ keyA \in {"F# major", "Gb major"}) => codeOfA.value[1] = <<"2", "B">>

\* C23: sessions running at the same time share no mutable state besides the
\* session registry and the progress channel: no step of one session's
\* decision or render writes state that another session's decision or render
\* reads.
C23_NoSharedMutableState ==
    cacheReads \cap overlapped = {}

\* The key of the same mode (ring) as cam whose tonic lies semis semitones higher
Transposed(cam, semis) ==
    CHOOSE c \in PitchKeys :
        /\ c[Len(c)] = cam[Len(cam)]
        /\ CamelotToPitch(c) = (CamelotToPitch(cam) + semis) % 12

\* C24: for every pair of valid codes, the source key transposed by
\* pitch_shift_to_match(source, target) semitones, its mode kept, is at wheel
\* distance 0 or 1 from the target.
C24_ShiftMakesCompatible ==
    ("shift" \in called /\ camA \in PitchKeys /\ camB \in PitchKeys)
        => camelot_distance(Transposed(camA, shift), camB) \in {0, 1}

\* The positions of render_mix in program order
RenderStages ==
    <<"mkdtemp", "ensure_wav_a", "ensure_wav_b", "extract_a", "extract_b",
      "eq_a", "eq_b", "stretch_a", "stretch_b", "pitch_a", "pitch_b",
      "crossfade", "sfx", "export_mp3", "export_wav", "finally", "done">>

\* The primary path has completed the stage
Past(stage) ==
    \E i, j \in DOMAIN RenderStages :
        RenderStages[i] = stage /\ RenderStages[j] = rPc /\ i < j

IsStretch(o) == o.op \in {"rubberband_stretch", "atempo"}

IsPitch(o) == o.op \in {"rubberband_pitch", "asetrate"}

\* The place of a request in the order the claim lists
OpRank(o) ==
    LET second == IF o.song = "b" THEN 1 ELSE 0
    IN  CASE o.op = "ensure_wav"       -> 1 + second
          [] o.op = "extract_segment"  -> 3 + second
          [] o.op = "eq"               -> 5 + second
          [] IsStretch(o)              -> 7 + second
          [] IsPitch(o)                -> 9 + second
          [] o.op = "crossfade"        -> 11
          [] o.op = "overlay"          -> 12
          [] o.op = "normalize_encode" -> IF o.song = "mp3" THEN 13 ELSE 14

\* The second request is the ffmpeg retry of the rubberband request before it
IsRetry(i, j) ==
    /\ j = i + 1
    /\ ops[i].op \in {"rubberband_stretch", "rubberband_pitch"}
    /\ ops[j].op \in {"atempo", "asetrate"}

Factor(song) ==
    IF song = "a" THEN rPlan.song_a.tempo_stretch_factor
    ELSE rPlan.song_b.tempo_stretch_factor

Semitones(song) ==
    IF song = "a" THEN rPlan.song_a.pitch_shift_semitones
    ELSE rPlan.song_b.pitch_shift_semitones

HasOp(P(_)) == \E i \in DOMAIN ops : P(ops[i])

\* C25: while no primary stage has failed, the requests were issued one after
\* the other in the order convert A, convert B, extract A, extract B, EQ A,
\* EQ B, time-stretch, pitch-shift, crossfade, SFX overlay, normalize/encode;
\* a segment is stretched exactly when its factor is not 1 and pitch-shifted
\* exactly when its semitones are not 0, the overlay is issued only for a
\* plan with SFX enabled, and nothing follows normalize/encode.
C25_PrimaryOrder ==
    rFailed = "none" =>
        /\ \A i, j \in DOMAIN ops :
              i < j => \/ OpRank(ops[i]) < OpRank(ops[j])
                       \/ OpRank(ops[i]) = OpRank(ops[j]) /\ IsRetry(i, j)
        /\ \A i \in DOMAIN ops :
              /\ IsStretch(ops[i]) => Factor(ops[i].song) # 10000
              /\ IsPitch(ops[i]) => Semitones(ops[i].song) # 0
              /\ ops[i].op = "overlay" => rPlan.sfx.enabled
        /\ \A song \in {"a", "b"} :
              /\ (Past("stretch_" \o song) /\ Factor(song) # 10000)
                    => HasOp(LAMBDA o : IsStretch(o) /\ o.song = song)
              /\ (Past("pitch_" \o song) /\ Semitones(song) # 0)
                    => HasOp(LAMBDA o : IsPitch(o) /\ o.song = song)
              /\ Past("extract_" \o song)
                    => /\ HasOp(LAMBDA o : o.op = "ensure_wav" /\ o.song = song)
                       /\ HasOp(LAMBDA o : o.op = "extract_segment" /\ o.song = song)
        /\ Past("crossfade") => HasOp(LAMBDA o : o.op = "crossfade")
        /\ Past("export_wav")
              => /\ Len(ops) >= 2
                 /\ ops[Len(ops) - 1] = Op("normalize_encode", "mp3", 0, 0)
                 /\ ops[Len(ops)] = Op("normalize_encode", "wav", 0, 0)

\* A finished primary render that stretched, pitch-shifted and overlaid
C25_Witness ==
    /\ rPc = "done" /\ rFailed = "none"
    /\ HasOp(LAMBDA o : IsStretch(o) /\ o.song = "a")
    /\ HasOp(LAMBDA o : IsPitch(o) /\ o.song = "b")
    /\ HasOp(LAMBDA o : o.op = "eq")
    /\ HasOp(LAMBDA o : o.op = "overlay")
    /\ Factor("b") = 10000 /\ Semitones("a") = 0

\* The requests of the fallback render: those from its conversion of song A on
FallbackOps ==
    LET first == Op("ensure_wav", "a", 0, 0)
        k     == CHOOSE k \in DOMAIN ops :
                     ops[k] = first /\ \A j \in DOMAIN ops : j > k => ops[j] # first
    IN  SubSeq(ops, k, Len(ops))

\* What the claim lets the fallback render issue for the plan
SimplifiedRequests ==
    <<Op("ensure_wav", "a", 0, 0), Op("ensure_wav", "b", 0, 0)>>
    \o (IF OrZero(rPlan.song_b.in_point_ms) > 0
        THEN <<Op("extract_segment", "b", OrZero(rPlan.song_b.in_point_ms), -1)>>
        ELSE <<>>)
    \o <<Op("crossfade", "linear", -1, rPlan.transition.total_duration_ms),
         Op("normalize_encode", "mp3", 0, 0)>>

\* The fallback render has issued its first request
FallbackStarted == rFailed # "none" /\ rPc # "simple_ensure_a"

\* C26: the fallback render issues no EQ, stretch, pitch-shift or SFX request:
\* it converts both songs, extracts song B from the plan's in-point (nothing
\* when the in-point is 0), crossfades with the linear curve over the plan's
\* total transition duration whatever curve the plan names, and encodes.
C26_SimplifiedRender ==
    FallbackStarted =>
        /\ Len(FallbackOps) <= Len(SimplifiedRequests)
        /\ FallbackOps = SubSeq(SimplifiedRequests, 1, Len(FallbackOps))
        /\ (rPc \in {"finally", "done"} /\ rSimpleFailed = "none")
              => FallbackOps = SimplifiedRequests

\* A finished fallback render of a plan that stretches, pitch-shifts, enables
\* SFX, names another curve and starts song B late
C26_Witness ==
    /\ rPc = "done" /\ rFailed # "none" /\ rSimpleFailed = "none"
    /\ rPlan.transition.crossfade_curve # "linear"
    /\ rPlan.sfx.enabled
    /\ Factor("a") # 10000 /\ Semitones("b") # 0
    /\ OrZero(rPlan.song_b.in_point_ms) > 0
    /\ Len(FallbackOps) = 5

\* rule_based_mix has returned a plan
RuleBasedPlanReturned ==
    /\ mixVia # "none"
    /\ mixResult.exc = ""
    /\ ~IsNone(mixResult.value)
    /\ mixResult.value[1].strategy = "bass_swap"

Elements(seq) == {seq[i] : i \in DOMAIN seq}

\* Four times the distance of downbeat d from the out-point target: the
\* caller's timestamp, or three quarters of song A's duration
OutTargetGap(d) ==
    IF ~IsNone(mixArgs.transition_start_ms)
    THEN 4 * Abs(d - mixArgs.transition_start_ms[1])
    ELSE Abs(4 * d - 3 * contractA.song_a.duration_ms)

\* C27: when song A has downbeats, the out point of a rule-based plan is the
\* downbeat nearest to the caller's timestamp, or to 75% of song A's duration
\* when none is given; of two equally near downbeats it is the earlier one.
C27_OutPointNearestDownbeat ==
    (RuleBasedPlanReturned /\ Len(contractA.song_a.downbeats_ms) > 0) =>
        LET out == mixResult.value[1].song_a.out_point_ms[1]
        IN  /\ out \in Elements(contractA.song_a.downbeats_ms)
            /\ \A d \in Elements(contractA.song_a.downbeats_ms) :
                  \/ OutTargetGap(out) < OutTargetGap(d)
                  \/ OutTargetGap(out) = OutTargetGap(d) /\ out <= d

\* The caller's timestamp lies midway between two downbeats
C27_Witness ==
    /\ RuleBasedPlanReturned
    /\ mixArgs.transition_start_ms = Some(Ms(3000))
    /\ Ms(4000) \in Elements(contractA.song_a.downbeats_ms)
    /\ mixResult.value[1].song_a.out_point_ms = Some(Ms(2000))

\* C28: the in point of a rule-based plan is, when the caller gives an
\* in-timestamp and song B has downbeats, the downbeat of song B nearest to
\* it; without a timestamp it is the start of the first phrase in timeline
\* order labelled intro, verse or breakdown, and 0 when no phrase is.
C28_InPoint ==
    RuleBasedPlanReturned =>
        LET inp     == mixResult.value[1].song_b.in_point_ms[1]
            sb      == contractA.song_b
            given   == mixArgs.song_b_in_point_ms
            labeled == {i \in DOMAIN sb.phrases :
                           sb.phrases[i].type \in {"intro", "verse", "breakdown"}}
        IN  IF ~IsNone(given)
            THEN Len(sb.downbeats_ms) > 0 =>
                   /\ inp \in Elements(sb.downbeats_ms)
                   /\ \A d \in Elements(sb.downbeats_ms) :
                         Abs(inp - given[1]) <= Abs(d - given[1])
            ELSE IF labeled = {} THEN inp = 0
                 ELSE \E i \in labeled :
                        /\ \A j \in labeled : i <= j
                        /\ inp = sb.phrases[i].start_ms

\* Without a timestamp the first phrase (a chorus) is passed over for the verse
C28_Witness ==
    /\ RuleBasedPlanReturned
    /\ IsNone(mixArgs.song_b_in_point_ms)
    /\ Len(contractA.song_b.phrases) = 2
    /\ contractA.song_b.phrases[1].type = "chorus"
    /\ mixResult.value[1].song_b.in_point_ms = Some(Ms(5000))

\* C29: in a rule-based plan song B's pitch shift is
\* pitch_shift_to_match(codeB, codeA) when the caller asked for key matching
\* and the verdict is neither True nor unknown, and 0 otherwise; song A's
\* pitch shift is 0.
C29_PitchShiftOnlyOnRequest ==
    RuleBasedPlanReturned =>
        LET plan    == mixResult.value[1]
            verdict == contractA.compatibility.key_compatible
        IN  /\ plan.song_a.pitch_shift_semitones = 0
            /\ plan.song_b.pitch_shift_semitones =
                  IF mixArgs.mix_in_key /\ verdict \notin {"True", "unknown"}
                  THEN pitch_shift_to_match(contractA.song_b.camelot,
                                            contractA.song_a.camelot)
                  ELSE 0

\* Key matching requested for keys judged incompatible: song B is shifted
C29_Witness ==
    /\ RuleBasedPlanReturned
    /\ mixArgs.mix_in_key
    /\ contractA.compatibility.key_compatible = "False"
    /\ mixResult.value[1].song_b.pitch_shift_semitones # 0

\* W: the transition duration times song A's factor when that factor is not 1
OriginalTempoWindow ==
    IF Factor("a") # 10000
    THEN TimesFactor(rPlan.transition.total_duration_ms, Factor("a"))
    ELSE rPlan.transition.total_duration_ms

\* Every extraction request for song A ends at `endA`, and every one for song B
\* runs from the in point to the end of the song
ExtractsTo(endA) ==
    \A i \in DOMAIN ops :
        ops[i].op = "extract_segment" =>
            IF ops[i].song = "a"
            THEN ops[i].a = 0 /\ ops[i].b = endA
            ELSE ops[i].a = OrZero(rPlan.song_b.in_point_ms) /\ ops[i].b = -1

EqEntries(md) ==
    LET eq == md.transition.eq_automation
    IN  {e[1] : e \in {x \in {eq.song_a_bass, eq.song_b_bass, eq.song_a_highs,
                                eq.song_b_highs, eq.song_a_mids, eq.song_b_mids} :
                         ~IsNone(x)}}

\* C31: in every rule-based plan whose out point snapped to a downbeat of
\* song A, also one at the end of the song, every EQ entry has a window of
\* positive length and the transition duration is positive.
C31_WindowsNonEmpty ==
    (RuleBasedPlanReturned /\ Len(contractA.song_a.downbeats_ms) > 0) =>
        /\ mixResult.value[1].transition.total_duration_ms > 0
        /\ \A e \in EqEntries(mixResult.value[1]) : e.end_ms > e.start_ms

\* C32: within one render_mix call each output file of the session is
\* written at most once: what the primary path wrote is not written again by
\* the fallback path.
C32_OutputWrittenOnce ==
    Len(outMp3) <= 1 /\ Len(outWav) <= 1

\* C33: when the strategist answers with the "incompatible" body (strategy,
\* confidence, rationale and suggestion, no mix geometry), ai_mix_decision
\* returns that plan, with strategy "incompatible", and not a rule-based one.
C33_IncompatibleAccepted ==
    (mixVia = "ai_mix_decision" /\ gemini.api_key /\ gemini.outcome = IncompatibleResponse) =>
        /\ mixResult.exc = ""
        /\ ~IsNone(mixResult.value)
        /\ mixResult.value[1].strategy = "incompatible"

\* C34: when both key confidences are at least 0.5, the key verdict of
\* compute_compatibility is True exactly when the wheel distance is 0 or 1;
\* it is never True for an unknown code, whose relation is "unknown".
C34_VerdictTrueIffNear ==
    LET sa     == contractA.song_a
        sb     == contractA.song_b
        compat == contractA.compatibility
    IN  (sa.key_confidence >= 50 /\ sb.key_confidence >= 50) =>
            /\ compat.key_compatible = "True" <=> compat.camelot_distance \in {0, 1}
            /\ compat.camelot_relation = "unknown" => compat.key_compatible # "True"

\* C35: for every rule-based plan whose out point is a downbeat inside song A,
\* the end of the song-A segment render_mix extracts (fade start plus the
\* transition duration, times song A's factor when that is not 1) does not
\* lie beyond the end of song A, whatever the two BPMs.
C35_SegmentInsideSongA ==
    (RuleBasedPlanReturned /\ Len(contractA.song_a.downbeats_ms) > 0) =>
        SegAEnd(mixResult.value[1]) <= contractA.song_a.duration_ms

\* The song-A segment as it reaches _crossfade: the extracted window, time-
\* stretched when song A's factor is not 1
SegmentAtCrossfade(o) ==
    IF Factor("a") # 10000 THEN StretchedLength(o.b - o.a, Factor("a")) ELSE o.b - o.a

\* C36: on the primary path, for every stretch factor of song A, the crossfade
\* start computed on song A's stretched timeline plus the crossfade duration
\* is the length of the time-stretched song-A segment (to within one
\* hundredth of a millisecond of rounding).
C36_CrossfadeEndsWithSegment ==
    \A i \in DOMAIN ops : \A j \in DOMAIN ops :
        (/\ ops[i].op = "extract_segment" /\ ops[i].song = "a"
         /\ ops[j].op = "crossfade" /\ ops[j].a # -1) =>
            LET gap == ops[j].a + ops[j].b - SegmentAtCrossfade(ops[i])
            IN  gap \in -1..1

\* 2 to the power n
RECURSIVE Pow2(_)
Pow2(n) == IF n = 0 THEN 1 ELSE 2 * Pow2(n - 1)

\* How many of the chain's entries before the last are `v`
Leading(v) ==
    Cardinality({ i \in 1..(Len(atempo_chain) - 1) : atempo_chain[i] = v })

\* C37: when rubberband fails, the construction of the atempo chain ends for
\* every factor the plan schema admits, zero and negative ones included (each
\* loop has stopped by its MaxAtempoSteps-th iteration), and the finished
\* chain holds only values within [0.5, 2.0] whose product is the factor (to
\* within the four decimals the last value is written with).
C37_AtempoChainEnds ==
    /\ (tsPc = "halving" /\ Len(atempo_chain) >= MaxAtempoSteps) => ~AboveTwo(atempo_val)
    /\ (tsPc = "doubling" /\ Len(atempo_chain) >= MaxAtempoSteps) => ~BelowHalf(atempo_val)
    /\ (atempo_chain # <<>> /\ tsPc \notin {"halving", "doubling"}) =>
          /\ \A i \in DOMAIN atempo_chain :
                atempo_chain[i] >= 5000 /\ atempo_chain[i] <= 20000
          /\ LET last == atempo_chain[Len(atempo_chain)]
                 gap  == last * Pow2(Leading(20000)) - tsFactor * Pow2(Leading(5000))
             IN  2 * gap <= Pow2(Leading(20000)) /\ 2 * gap >= -Pow2(Leading(20000))

====
